---- MODULE Spec2Model ----
(***************************************************************************)
(* LL-journal: the entry write coordinator (internal/journal) over its     *)
(* three backends: the S3 blob store (internal/s3), the per-user git       *)
(* repository (internal/git) and the PostgreSQL metadata store             *)
(* (internal/store).  Every backend call is one step of a request, and     *)
(* every backend call may fail.                                            *)
(***************************************************************************)
EXTENDS Integers, Sequences, FiniteSets, TLC

\* ------------------------------------------------------------------ bounds
MaxJournals == 1
MaxOps == 3

\* ---------------------------------------------------------------- universe
Users == {"u1", "u2"}
\* The two users are interchangeable: u1 is the one who creates journals,
\* u2 calls every operation on them as a stranger.
JournalOwners == {"u1"}
Procs == {"p1", "p2"}
JournalIds == 1..MaxJournals
Dates == {"d1", "d2"}
BadDate == "bad"
DateInputs == Dates \cup {BadDate}
Paths == JournalIds \X Dates
Keys == Users \X JournalIds \X Dates

\* Contents are sequences of characters; NUL, CR, LF and SP are the
\* characters the sanitizer and the word counter treat specially.
Absent == <<"ABSENT">>
\* Titles are texts as well; a journal is created with the first of them.
Titles == { <<"t1">>, <<"t2">> }
CreateTitles == { <<"t1">> }
RawContents == { <<"a">>, <<"a", "CR", "LF", "b">>, <<"NUL", "a", "CR", "b">> }

\* ---------------------------------------------------------- pure functions
RECURSIVE RemoveAll(_, _)
RemoveAll(s, c) ==
    IF s = <<>> THEN <<>>
    ELSE IF Head(s) = c THEN RemoveAll(Tail(s), c)
    ELSE <<Head(s)>> \o RemoveAll(Tail(s), c)

RECURSIVE ReplacePair(_, _, _, _)
ReplacePair(s, a, b, r) ==
    IF s = <<>> THEN <<>>
    ELSE IF Len(s) >= 2 /\ s[1] = a /\ s[2] = b
         THEN <<r>> \o ReplacePair(SubSeq(s, 3, Len(s)), a, b, r)
    ELSE <<Head(s)>> \o ReplacePair(Tail(s), a, b, r)

\* ReplaceChar replacing the first occurrence only
ReplaceChar_First(s, a, r) ==
    [i \in 1..Len(s) |-> IF s[i] = a /\ (\A k \in 1..(i - 1) : s[k] # a) THEN r ELSE s[i]]

ReplaceChar(s, a, r) == [i \in 1..Len(s) |-> IF s[i] = a THEN r ELSE s[i]]

\* sanitizeMarkdown without its last ReplaceAll: a lone CR survives
sanitizeMarkdown_KeepCR(content) ==
    ReplacePair(RemoveAll(content, "NUL"), "CR", "LF", "LF")


sanitizeMarkdown(content) ==
    ReplaceChar(ReplacePair(RemoveAll(content, "NUL"), "CR", "LF", "LF"), "CR", "LF")

IsSpace(c) == c \in {"SP", "LF", "CR"}

\* countWords splitting at every single blank, as strings.Split would
countWords_Split(content) ==
    1 + Cardinality({i \in 1..Len(content) : content[i] = "SP"})

countWords(content) ==
    Cardinality({i \in 1..Len(content) :
        /\ ~IsSpace(content[i])
        /\ (i = 1 \/ IsSpace(content[i - 1]))})

GenerateKey(userSub, journalID, entryDate) == <<userSub, journalID, entryDate>>

\* time.Parse("2006-01-02", s): only well-formed dates parse.
ParseOk(entryDate) == entryDate \in Dates

EntryMessage(entryDate) == <<"Entry for", entryDate>>
UpdateMessage(entryDate) == <<"Update entry for", entryDate>>

\* ------------------------------------------------------------------- state
VARIABLES
    journals,   \* journals table: id -> owner, "none" (never created) or "deleted"
    titles,     \* journals table: id -> title of the row, Absent without a row
    entries,    \* journal_entries table: set of rows
    versions,   \* journal_versions table: set of rows
    nextEntryId,\* ids handed out by generateUUID for entry rows
    blobs,      \* S3 bucket: key -> content or Absent
    repos,      \* git root directory: user -> repository
    pc,         \* position of each request
    op,         \* arguments of each request
    loc,        \* local variables of each request
    log,        \* backend writes and failed lookups of each request, in order
    out,        \* what each request returned
    pre,        \* the backends as they were when each request started
    ops,        \* number of mutating requests started
    dir,        \* migrations directory: the .sql files in it
    schema_migrations, \* schema_migrations table: names in the order of their insertion
    schema,     \* committed statements of the database, in the order of their execution
    tx,         \* the open transaction of RunMigrations and what it holds
    mig,        \* RunMigrations: position, file list, loop indices, returned error
    stdout      \* lines printed by RunMigrations

serviceVars == <<journals, titles, entries, versions, nextEntryId, blobs, repos, pc, op, loc, log, out, pre, ops>>
migVars == <<dir, schema_migrations, schema, tx, mig, stdout>>
vars == <<serviceVars, migVars>>

NoHash == <<"none", 0>>
NoEntry == [id |-> 0, journal |-> 0, date |-> "none", key |-> <<>>, commit |-> NoHash, wc |-> 0]
NoOp == [kind |-> "none", user |-> "none", journal |-> 0, date |-> "none", content |-> <<>>]
NoLoc == [entry |-> NoEntry, commit |-> NoHash, list |-> <<>>]
NoOut == [err |-> "none", entry |-> NoEntry, content |-> Absent]
NoPre == <<>>

EmptyTree == [p \in Paths |-> Absent]
NoRepo == [init |-> FALSE, commits |-> <<>>, wt |-> EmptyTree, idx |-> EmptyTree]

Backends == [journals |-> journals, titles |-> titles, entries |-> entries, versions |-> versions,
             blobs |-> blobs, repos |-> repos]

\* ---- migrations: files are named by numbers, whose order is the order of
\* sort.Strings on the names; every file holds one or two statements
MaxRuns == 2
Migrations == 1..3
StmtCount(f) == IF f = 2 THEN 1 ELSE 2
Statements(f) == [k \in 1..StmtCount(f) |-> <<f, k>>]
NoTx == [open |-> FALSE, stmts |-> <<>>, rows |-> <<>>]
NoRun == [pc |-> "idle", files |-> <<>>, i |-> 1, k |-> 1, err |-> "none", applied |-> <<>>, runs |-> 0]

RECURSIVE Ascending(_)
Ascending(S) ==
    IF S = {} THEN <<>>
    ELSE LET m == CHOOSE x \in S : \A y \in S : x <= y IN <<m>> \o Ascending(S \ {m})

RECURSIVE Descending(_)
Descending(S) ==
    IF S = {} THEN <<>>
    ELSE LET m == CHOOSE x \in S : \A y \in S : x >= y IN <<m>> \o Descending(S \ {m})

RECURSIVE AllStatements(_)
AllStatements(files) ==
    IF files = <<>> THEN <<>> ELSE Statements(Head(files)) \o AllStatements(Tail(files))

\* getMigrationFiles without the sort.Strings call
getMigrationFiles_Unsorted(d) == Descending(d)

\* getMigrationFiles: the .sql files of the directory, sorted by name
getMigrationFiles(d) == Ascending(d)

\* isMigrationRun: SELECT EXISTS(... WHERE migration_name = $1)
isMigrationRun(name) == \E n \in 1..Len(schema_migrations) : schema_migrations[n] = name

\* main has run RunMigrations before the server accepts a request
Migrated ==
    /\ dir = Migrations
    /\ schema_migrations = getMigrationFiles(Migrations)
    /\ schema = AllStatements(getMigrationFiles(Migrations))
    /\ tx = NoTx
    /\ mig = NoRun
    /\ stdout = <<>>

Init ==
    /\ Migrated
    /\ journals = [j \in JournalIds |-> "none"]
    /\ titles = [j \in JournalIds |-> Absent]
    /\ entries = {}
    /\ versions = {}
    /\ nextEntryId = 1
    /\ blobs = [k \in Keys |-> Absent]
    /\ repos = [u \in Users |-> NoRepo]
    /\ pc = [p \in Procs |-> "idle"]
    /\ op = [p \in Procs |-> NoOp]
    /\ loc = [p \in Procs |-> NoLoc]
    /\ log = [p \in Procs |-> <<>>]
    /\ out = [p \in Procs |-> NoOut]
    /\ pre = [p \in Procs |-> NoPre]
    /\ ops = 0

\* ------------------------------------------------- internal/store (tables)
\* SELECT ... FROM journals WHERE id = $1 AND user_sub = $2
GetJournal(id, userSub) == id \in JournalIds /\ journals[id] = userSub

\* SELECT ... FROM journal_entries WHERE journal_id = $1 AND entry_date = $2
EntryRowsByDate(journalID, entryDate) ==
    {e \in entries : e.journal = journalID /\ e.date = entryDate}

GetJournalEntryByDate(journalID, entryDate) ==
    IF EntryRowsByDate(journalID, entryDate) = {} THEN NoEntry
    ELSE CHOOSE e \in EntryRowsByDate(journalID, entryDate) : TRUE

\* SELECT ... FROM journal_entries WHERE journal_id = $1
ListJournalEntries(journalID) == {e \in entries : e.journal = journalID}

\* EntryInsertAccepted of a table without UNIQUE(journal_id, entry_date)
EntryInsertAccepted_NoUnique(entry) ==
    /\ entry.journal \in JournalIds
    /\ journals[entry.journal] \in Users

\* INSERT INTO journal_entries: the journal_id foreign key and
\* UNIQUE(journal_id, entry_date) of the schema decide whether it is accepted.
EntryInsertAccepted(entry) ==
    /\ entry.journal \in JournalIds
    /\ journals[entry.journal] \in Users
    /\ EntryRowsByDate(entry.journal, entry.date) = {}

\* UPDATE journal_entries SET s3_key, git_commit_hash, word_count WHERE id = $4
UpdateJournalEntry(entry) ==
    {IF e.id = entry.id
     THEN [e EXCEPT !.key = entry.key, !.commit = entry.commit, !.wc = entry.wc]
     ELSE e : e \in entries}

\* The DELETE of an entry row matching no row
EntriesAfterDeleteEntry_NoMatch(id) == entries

\* DELETE FROM journal_entries WHERE id = $1 (ON DELETE CASCADE to versions)
EntriesAfterDeleteEntry(id) == {e \in entries : e.id # id}
VersionsAfterDeleteEntry(id) == {v \in versions : v.entry # id}

\* VersionInsertAccepted of a table without UNIQUE(entry_id, commit_hash)
VersionInsertAccepted_NoUnique(version) ==
    \E e \in entries : e.id = version.entry

\* INSERT INTO journal_versions: the entry_id foreign key and
\* UNIQUE(entry_id, commit_hash) of the schema decide whether it is accepted.
VersionInsertAccepted(version) ==
    /\ \E e \in entries : e.id = version.entry
    /\ ~\E v \in versions : v.entry = version.entry /\ v.commit = version.commit

\* DELETE FROM journals WHERE id = $1 AND user_sub = $2 (cascades)
JournalsAfterDeleteJournal(id, userSub) ==
    IF GetJournal(id, userSub) THEN [journals EXCEPT ![id] = "deleted"] ELSE journals
TitlesAfterDeleteJournal(id, userSub) ==
    IF GetJournal(id, userSub) THEN [titles EXCEPT ![id] = Absent] ELSE titles
EntriesAfterDeleteJournal(id, userSub) ==
    IF GetJournal(id, userSub) THEN {e \in entries : e.journal # id} ELSE entries
\* The DELETE of a journal row without the cascade to journal_versions
VersionsAfterDeleteJournal_NoCascade(id, userSub) == versions

VersionsAfterDeleteJournal(id, userSub) ==
    {v \in versions : \E e \in EntriesAfterDeleteJournal(id, userSub) : e.id = v.entry}

\* ------------------------------------------------------- internal/s3 (bucket)
Upload(key, content) == [blobs EXCEPT ![key] = content]
Delete(key) == [blobs EXCEPT ![key] = Absent]
Download(key) == blobs[key]

\* ------------------------------------------------ internal/git (repository)
InitialCommit == [tree |-> EmptyTree, msg |-> <<"Initial commit">>]

\* GetOrInitRepo initialising the directory on every call
GetOrInitRepo_AlwaysInit(r) ==
    [init |-> TRUE, commits |-> <<InitialCommit>>, wt |-> EmptyTree, idx |-> EmptyTree]

\* PlainOpen, or PlainInit followed by the initial commit
GetOrInitRepo(r) ==
    IF r.init THEN r
    ELSE [init |-> TRUE, commits |-> <<InitialCommit>>, wt |-> EmptyTree, idx |-> EmptyTree]

HeadHash(userSub, r) == <<userSub, Len(r.commits)>>
HeadTree(r) == r.commits[Len(r.commits)].tree
EntryPath(journalID, entryDate) == <<journalID, entryDate>>

\* os.WriteFile(filePath, content)
WriteFile(r, path, content) == [r EXCEPT !.wt[path] = content]
\* wt.Add(relativePath): stage the file as it is on disk now
Add(r, path) == [r EXCEPT !.idx[path] = r.wt[path]]
\* wt.Status().IsClean(): nothing staged, nothing modified on disk
IsClean(r) == r.idx = HeadTree(r) /\ r.wt = r.idx
\* Commit rewriting the head commit in place instead of adding one
Commit_Amend(r, message) ==
    [r EXCEPT !.commits = Append(SubSeq(@, 1, Len(@) - 1), [tree |-> r.idx, msg |-> message])]

\* wt.Commit(message): a commit of the staged tree becomes the head
Commit(r, message) == [r EXCEPT !.commits = Append(@, [tree |-> r.idx, msg |-> message])]

\* ------------------------------------------------------- request plumbing
Goto(p, l) == pc' = [pc EXCEPT ![p] = l]
Logged(p, ev) == log' = [log EXCEPT ![p] = Append(@, ev)]
Returns(p, e, en, c) ==
    /\ pc' = [pc EXCEPT ![p] = "done"]
    /\ out' = [out EXCEPT ![p] = [err |-> e, entry |-> en, content |-> c]]
Begin(p, kind, u, j, d, c) ==
    /\ pc[p] = "idle"
    /\ op' = [op EXCEPT ![p] = [kind |-> kind, user |-> u, journal |-> j, date |-> d, content |-> c]]
    /\ pre' = [pre EXCEPT ![p] = Backends]
    /\ log' = [log EXCEPT ![p] = <<>>]
    /\ loc' = [loc EXCEPT ![p] = NoLoc]

Content(p) == sanitizeMarkdown(op[p].content)
Path(p) == EntryPath(op[p].journal, op[p].date)
Repo(p) == repos[op[p].user]
Message(p) == IF op[p].kind = "CreateEntry" THEN EntryMessage(op[p].date) ELSE UpdateMessage(op[p].date)

\* The caller has the response; the request's frame is gone.
Return(p) ==
    /\ pc[p] = "done"
    /\ pc' = [pc EXCEPT ![p] = "idle"]
    /\ op' = [op EXCEPT ![p] = NoOp]
    /\ loc' = [loc EXCEPT ![p] = NoLoc]
    /\ log' = [log EXCEPT ![p] = <<>>]
    /\ out' = [out EXCEPT ![p] = NoOut]
    /\ pre' = [pre EXCEPT ![p] = NoPre]
    /\ UNCHANGED <<migVars, journals, titles, entries, versions, nextEntryId, blobs, repos, ops>>

\* ------------------------------------------------- Service.CreateJournal
\* Store.CreateJournal: INSERT, then read the row back.  The request is one
\* statement on the journals table; a failed insert leaves no row.
CreateJournal(p, u, title) ==
    /\ pc[p] = "idle"
    /\ \E j \in JournalIds :
        /\ journals[j] = "none"
        /\ \A i \in JournalIds : i < j => journals[i] # "none"
        /\ journals' = [journals EXCEPT ![j] = u]
        /\ titles' = [titles EXCEPT ![j] = title]
    /\ UNCHANGED <<migVars, entries, versions, nextEntryId, blobs, repos, pc, op, loc, log, out, pre, ops>>

\* --------------------------------------------------- Service.CreateEntry
\* time.Parse of the date
CreateEntry_Start(p, u, j, d, c) ==
    /\ ops < MaxOps
    /\ Begin(p, "CreateEntry", u, j, d, c)
    /\ ops' = ops + 1
    /\ IF ParseOk(d) THEN Goto(p, "c_getJournal") /\ UNCHANGED out
       ELSE Returns(p, "invalid date format", NoEntry, Absent)
    /\ UNCHANGED <<migVars, journals, titles, entries, versions, nextEntryId, blobs, repos>>

\* s.store.GetJournal: any error, a missing row included, is "journal not found"
CreateEntry_GetJournal(p) ==
    /\ pc[p] = "c_getJournal"
    /\ \E dbErr \in BOOLEAN :
        /\ IF ~dbErr /\ GetJournal(op[p].journal, op[p].user)
           THEN Goto(p, "c_checkEntry") /\ UNCHANGED out
           ELSE Returns(p, "journal not found", NoEntry, Absent)
        /\ IF dbErr THEN Logged(p, "lookup_err") ELSE UNCHANGED log
    /\ UNCHANGED <<migVars, journals, titles, entries, versions, nextEntryId, blobs, repos, op, loc, pre, ops>>

\* s.store.GetJournalEntryByDate: err == nil means the entry exists; every
\* error, a failed query included, lets the request go on.
CreateEntry_CheckEntry(p) ==
    /\ pc[p] = "c_checkEntry"
    /\ \E dbErr \in BOOLEAN :
        /\ IF ~dbErr /\ GetJournalEntryByDate(op[p].journal, op[p].date) # NoEntry
           THEN Returns(p, "already exists", NoEntry, Absent)
           ELSE Goto(p, "c_upload") /\ UNCHANGED out
        /\ IF dbErr THEN Logged(p, "lookup_err") ELSE UNCHANGED log
    /\ UNCHANGED <<migVars, journals, titles, entries, versions, nextEntryId, blobs, repos, op, loc, pre, ops>>

\* CreateEntry_Upload with the upload error ignored
CreateEntry_Upload_Unchecked(p) ==
    /\ pc[p] = "c_upload"
    /\ \E s3Err \in BOOLEAN :
        IF s3Err
        THEN Logged(p, "put_err") /\ UNCHANGED blobs
        ELSE /\ blobs' = Upload(GenerateKey(op[p].user, op[p].journal, op[p].date), Content(p))
             /\ Logged(p, "put")
    /\ Goto(p, "g_open")
    /\ UNCHANGED <<migVars, journals, titles, entries, versions, nextEntryId, repos, op, loc, out, pre, ops>>

\* s.s3.Upload at the generated key (step A)
CreateEntry_Upload(p) ==
    /\ pc[p] = "c_upload"
    /\ \E s3Err \in BOOLEAN :
        IF s3Err
        THEN /\ Returns(p, "failed to upload to S3", NoEntry, Absent)
             /\ Logged(p, "put_err")
             /\ UNCHANGED blobs
        ELSE /\ blobs' = Upload(GenerateKey(op[p].user, op[p].journal, op[p].date), Content(p))
             /\ Logged(p, "put")
             /\ Goto(p, "g_open")
             /\ UNCHANGED out
    /\ UNCHANGED <<migVars, journals, titles, entries, versions, nextEntryId, repos, op, loc, pre, ops>>

\* CreateEntry_CommitFailed returning the error of the compensating delete
CreateEntry_CommitFailed_Masking(p) ==
    /\ pc[p] = "c_commitFailed"
    /\ \E s3Err \in BOOLEAN :
        IF s3Err
        THEN /\ Logged(p, "del_err")
             /\ Returns(p, "failed to delete from S3", NoEntry, Absent)
             /\ UNCHANGED blobs
        ELSE /\ blobs' = Delete(GenerateKey(op[p].user, op[p].journal, op[p].date))
             /\ Logged(p, "del")
             /\ Returns(p, "failed to commit to Git", NoEntry, Absent)
    /\ UNCHANGED <<migVars, journals, titles, entries, versions, nextEntryId, repos, op, loc, pre, ops>>

\* s.git.CommitFile failed (step B): delete the blob, ignore the outcome of
\* the delete, return the commit error
CreateEntry_CommitFailed(p) ==
    /\ pc[p] = "c_commitFailed"
    /\ \E s3Err \in BOOLEAN :
        IF s3Err THEN Logged(p, "del_err") /\ UNCHANGED blobs
        ELSE /\ blobs' = Delete(GenerateKey(op[p].user, op[p].journal, op[p].date))
             /\ Logged(p, "del")
    /\ Returns(p, "failed to commit to Git", NoEntry, Absent)
    /\ UNCHANGED <<migVars, journals, titles, entries, versions, nextEntryId, repos, op, loc, pre, ops>>

\* NewEntry with the row's key generated for another date than the blob's
NewEntry_OtherKey(p) ==
    [id |-> nextEntryId, journal |-> op[p].journal, date |-> op[p].date,
     key |-> GenerateKey(op[p].user, op[p].journal, IF op[p].date = "d1" THEN "d2" ELSE "d1"),
     commit |-> loc[p].commit, wc |-> countWords(Content(p))]

NewEntry(p) ==
    [id |-> nextEntryId, journal |-> op[p].journal, date |-> op[p].date,
     key |-> GenerateKey(op[p].user, op[p].journal, op[p].date),
     commit |-> loc[p].commit, wc |-> countWords(Content(p))]

\* s.store.CreateJournalEntry (step C): INSERT, then GetJournalEntry reads
\* the row back; either statement may fail.
CreateEntry_Insert(p) ==
    /\ pc[p] = "c_insert"
    /\ \E dbErr \in {"none", "insert", "readback"} :
        /\ IF dbErr # "insert" /\ EntryInsertAccepted(NewEntry(p))
           THEN /\ entries' = entries \cup {NewEntry(p)}
                /\ nextEntryId' = nextEntryId + 1
                /\ IF dbErr = "none"
                   THEN /\ loc' = [loc EXCEPT ![p].entry = NewEntry(p)]
                        /\ Logged(p, "insert")
                        /\ Goto(p, "c_version")
                   ELSE /\ Logged(p, "insert_lost")
                        /\ Goto(p, "c_insertFailed")
                        /\ UNCHANGED loc
           ELSE /\ Logged(p, "insert_err")
                /\ Goto(p, "c_insertFailed")
                /\ UNCHANGED <<entries, nextEntryId, loc>>
    /\ UNCHANGED <<migVars, journals, titles, versions, blobs, repos, op, out, pre, ops>>

\* CreateJournalEntry failed: delete the blob, ignore the outcome of the
\* delete, return the error; the commit stays
CreateEntry_InsertFailed(p) ==
    /\ pc[p] = "c_insertFailed"
    /\ \E s3Err \in BOOLEAN :
        IF s3Err THEN Logged(p, "del_err") /\ UNCHANGED blobs
        ELSE /\ blobs' = Delete(GenerateKey(op[p].user, op[p].journal, op[p].date))
             /\ Logged(p, "del")
    /\ Returns(p, "failed to save entry", NoEntry, Absent)
    /\ UNCHANGED <<migVars, journals, titles, entries, versions, nextEntryId, repos, op, loc, pre, ops>>

NewVersion(p) == [entry |-> loc[p].entry.id, commit |-> loc[p].commit, msg |-> Message(p)]

\* CreateEntry_Version returning the error of the version insert
CreateEntry_Version_Fatal(p) ==
    /\ pc[p] = "c_version"
    /\ \E dbErr \in BOOLEAN :
        IF ~dbErr /\ VersionInsertAccepted(NewVersion(p))
        THEN /\ versions' = versions \cup {NewVersion(p)}
             /\ Logged(p, "version")
             /\ Returns(p, "none", loc[p].entry, Absent)
        ELSE /\ Logged(p, "version_err")
             /\ Returns(p, "failed to save version", NoEntry, Absent)
             /\ UNCHANGED versions
    /\ UNCHANGED <<migVars, journals, titles, entries, nextEntryId, blobs, repos, op, loc, pre, ops>>

\* s.store.CreateJournalVersion (step D): an error is printed, not returned
CreateEntry_Version(p) ==
    /\ pc[p] = "c_version"
    /\ \E dbErr \in BOOLEAN :
        IF ~dbErr /\ VersionInsertAccepted(NewVersion(p))
        THEN versions' = versions \cup {NewVersion(p)} /\ Logged(p, "version")
        ELSE Logged(p, "version_err") /\ UNCHANGED versions
    /\ Returns(p, "none", loc[p].entry, Absent)
    /\ UNCHANGED <<migVars, journals, titles, entries, nextEntryId, blobs, repos, op, loc, pre, ops>>

\* ------------------------------------------------------ Client.CommitFile
\* Each statement of CommitFile that touches the repository is one step:
\* the working tree of a user is shared by all requests of that user.
CommitFile_Returns(p, hash) ==
    /\ loc' = [loc EXCEPT ![p].commit = hash]
    /\ Goto(p, IF op[p].kind = "CreateEntry" THEN "c_insert" ELSE "u_update")
    /\ UNCHANGED out

\* CommitFile_Fails with the error dropped: the saga goes on to step C
CommitFile_FailsThrough(p) ==
    /\ Logged(p, "commit_err")
    /\ UNCHANGED <<loc, out>>
    /\ Goto(p, IF op[p].kind = "CreateEntry" THEN "c_insert" ELSE "u_update")

\* CreateEntry compensates a commit error, UpdateEntry returns it at once.
CommitFile_Fails(p) ==
    /\ Logged(p, "commit_err")
    /\ UNCHANGED loc
    /\ IF op[p].kind = "CreateEntry"
       THEN Goto(p, "c_commitFailed") /\ UNCHANGED out
       ELSE Returns(p, "failed to commit to Git", NoEntry, Absent)

\* GetOrInitRepo, repo.Worktree, os.MkdirAll
CommitFile_Open(p) ==
    /\ pc[p] = "g_open"
    /\ \E gitErr \in BOOLEAN :
        IF gitErr THEN CommitFile_Fails(p) /\ UNCHANGED repos
        ELSE /\ repos' = [repos EXCEPT ![op[p].user] = GetOrInitRepo(@)]
             /\ Goto(p, "g_write")
             /\ UNCHANGED <<loc, log, out>>
    /\ UNCHANGED <<migVars, journals, titles, entries, versions, nextEntryId, blobs, op, pre, ops>>

\* os.WriteFile
CommitFile_Write(p) ==
    /\ pc[p] = "g_write"
    /\ \E gitErr \in BOOLEAN :
        IF gitErr THEN CommitFile_Fails(p) /\ UNCHANGED repos
        ELSE /\ repos' = [repos EXCEPT ![op[p].user] = WriteFile(@, Path(p), Content(p))]
             /\ Goto(p, "g_add")
             /\ UNCHANGED <<loc, log, out>>
    /\ UNCHANGED <<migVars, journals, titles, entries, versions, nextEntryId, blobs, op, pre, ops>>

\* wt.Add
CommitFile_Add(p) ==
    /\ pc[p] = "g_add"
    /\ \E gitErr \in BOOLEAN :
        IF gitErr THEN CommitFile_Fails(p) /\ UNCHANGED repos
        ELSE /\ repos' = [repos EXCEPT ![op[p].user] = Add(@, Path(p))]
             /\ Goto(p, "g_status")
             /\ UNCHANGED <<loc, log, out>>
    /\ UNCHANGED <<migVars, journals, titles, entries, versions, nextEntryId, blobs, op, pre, ops>>

\* wt.Status: a clean tree returns the current HEAD hash, and no commit is made
CommitFile_Status(p) ==
    /\ pc[p] = "g_status"
    /\ \E gitErr \in BOOLEAN :
        IF gitErr THEN CommitFile_Fails(p)
        ELSE IF IsClean(Repo(p))
        THEN CommitFile_Returns(p, HeadHash(op[p].user, Repo(p))) /\ Logged(p, "head")
        ELSE Goto(p, "g_commit") /\ UNCHANGED <<loc, log, out>>
    /\ UNCHANGED <<migVars, journals, titles, entries, versions, nextEntryId, blobs, repos, op, pre, ops>>

\* wt.Commit.  When nothing is staged (only the disk differs from the index)
\* the library either refuses with ErrEmptyCommit or records an empty commit,
\* depending on its version.
CommitFile_Commit(p) ==
    /\ pc[p] = "g_commit"
    /\ \E gitErr \in BOOLEAN, refuse \in BOOLEAN :
        IF gitErr \/ (Repo(p).idx = HeadTree(Repo(p)) /\ refuse)
        THEN CommitFile_Fails(p) /\ UNCHANGED repos
        ELSE /\ repos' = [repos EXCEPT ![op[p].user] = Commit(@, Message(p))]
             /\ CommitFile_Returns(p, HeadHash(op[p].user, Commit(Repo(p), Message(p))))
             /\ Logged(p, "commit")
    /\ UNCHANGED <<migVars, journals, titles, entries, versions, nextEntryId, blobs, op, pre, ops>>

\* --------------------------------------------------- Service.UpdateEntry
UpdateEntry_Start(p, u, j, d, c) ==
    /\ ops < MaxOps
    /\ Begin(p, "UpdateEntry", u, j, d, c)
    /\ ops' = ops + 1
    /\ IF ParseOk(d) THEN Goto(p, "u_getEntry") /\ UNCHANGED out
       ELSE Returns(p, "invalid date format", NoEntry, Absent)
    /\ UNCHANGED <<migVars, journals, titles, entries, versions, nextEntryId, blobs, repos>>

\* s.store.GetJournalEntryByDate
UpdateEntry_GetEntry(p) ==
    /\ pc[p] = "u_getEntry"
    /\ \E dbErr \in BOOLEAN :
        /\ IF ~dbErr /\ GetJournalEntryByDate(op[p].journal, op[p].date) # NoEntry
           THEN /\ loc' = [loc EXCEPT ![p].entry = GetJournalEntryByDate(op[p].journal, op[p].date)]
                /\ Goto(p, "u_getJournal")
                /\ UNCHANGED out
           ELSE Returns(p, "entry not found", NoEntry, Absent) /\ UNCHANGED loc
        /\ IF dbErr THEN Logged(p, "lookup_err") ELSE UNCHANGED log
    /\ UNCHANGED <<migVars, journals, titles, entries, versions, nextEntryId, blobs, repos, op, pre, ops>>

\* s.store.GetJournal
UpdateEntry_GetJournal(p) ==
    /\ pc[p] = "u_getJournal"
    /\ \E dbErr \in BOOLEAN :
        /\ IF ~dbErr /\ GetJournal(op[p].journal, op[p].user)
           THEN Goto(p, "u_upload") /\ UNCHANGED out
           ELSE Returns(p, "journal not found", NoEntry, Absent)
        /\ IF dbErr THEN Logged(p, "lookup_err") ELSE UNCHANGED log
    /\ UNCHANGED <<migVars, journals, titles, entries, versions, nextEntryId, blobs, repos, op, loc, pre, ops>>

\* s.s3.Upload over the key stored in the entry row (step A)
UpdateEntry_Upload(p) ==
    /\ pc[p] = "u_upload"
    /\ \E s3Err \in BOOLEAN :
        IF s3Err
        THEN /\ Returns(p, "failed to upload to S3", NoEntry, Absent)
             /\ Logged(p, "put_err")
             /\ UNCHANGED blobs
        ELSE /\ blobs' = Upload(loc[p].entry.key, Content(p))
             /\ Logged(p, "put")
             /\ Goto(p, "g_open")
             /\ UNCHANGED out
    /\ UNCHANGED <<migVars, journals, titles, entries, versions, nextEntryId, repos, op, loc, pre, ops>>

\* UpdatedEntry without the new commit hash
UpdatedEntry_KeepCommit(p) ==
    [loc[p].entry EXCEPT !.wc = countWords(Content(p))]

UpdatedEntry(p) ==
    [loc[p].entry EXCEPT !.commit = loc[p].commit, !.wc = countWords(Content(p))]

\* s.store.UpdateJournalEntry (step C)
UpdateEntry_Update(p) ==
    /\ pc[p] = "u_update"
    /\ \E dbErr \in BOOLEAN :
        IF dbErr
        THEN /\ Returns(p, "failed to update entry", NoEntry, Absent)
             /\ Logged(p, "update_err")
             /\ UNCHANGED <<entries, loc>>
        ELSE /\ entries' = UpdateJournalEntry(UpdatedEntry(p))
             /\ loc' = [loc EXCEPT ![p].entry = UpdatedEntry(p)]
             /\ Logged(p, "update")
             /\ Goto(p, "u_version")
             /\ UNCHANGED out
    /\ UNCHANGED <<migVars, journals, titles, versions, nextEntryId, blobs, repos, op, pre, ops>>

\* s.store.CreateJournalVersion (step D): an error is printed, not returned
UpdateEntry_Version(p) ==
    /\ pc[p] = "u_version"
    /\ \E dbErr \in BOOLEAN :
        IF ~dbErr /\ VersionInsertAccepted(NewVersion(p))
        THEN versions' = versions \cup {NewVersion(p)} /\ Logged(p, "version")
        ELSE Logged(p, "version_err") /\ UNCHANGED versions
    /\ Returns(p, "none", loc[p].entry, Absent)
    /\ UNCHANGED <<migVars, journals, titles, entries, nextEntryId, blobs, repos, op, loc, pre, ops>>

\* --------------------------------------------------- Service.DeleteEntry
DeleteEntry_Start(p, u, j, d) ==
    /\ ops < MaxOps
    /\ Begin(p, "DeleteEntry", u, j, d, <<>>)
    /\ ops' = ops + 1
    /\ IF ParseOk(d) THEN Goto(p, "d_getEntry") /\ UNCHANGED out
       ELSE Returns(p, "invalid date format", NoEntry, Absent)
    /\ UNCHANGED <<migVars, journals, titles, entries, versions, nextEntryId, blobs, repos>>

DeleteEntry_GetEntry(p) ==
    /\ pc[p] = "d_getEntry"
    /\ \E dbErr \in BOOLEAN :
        /\ IF ~dbErr /\ GetJournalEntryByDate(op[p].journal, op[p].date) # NoEntry
           THEN /\ loc' = [loc EXCEPT ![p].entry = GetJournalEntryByDate(op[p].journal, op[p].date)]
                /\ Goto(p, "d_getJournal")
                /\ UNCHANGED out
           ELSE Returns(p, "entry not found", NoEntry, Absent) /\ UNCHANGED loc
        /\ IF dbErr THEN Logged(p, "lookup_err") ELSE UNCHANGED log
    /\ UNCHANGED <<migVars, journals, titles, entries, versions, nextEntryId, blobs, repos, op, pre, ops>>

DeleteEntry_GetJournal(p) ==
    /\ pc[p] = "d_getJournal"
    /\ \E dbErr \in BOOLEAN :
        /\ IF ~dbErr /\ GetJournal(op[p].journal, op[p].user)
           THEN Goto(p, "d_delete") /\ UNCHANGED out
           ELSE Returns(p, "journal not found", NoEntry, Absent)
        /\ IF dbErr THEN Logged(p, "lookup_err") ELSE UNCHANGED log
    /\ UNCHANGED <<migVars, journals, titles, entries, versions, nextEntryId, blobs, repos, op, loc, pre, ops>>

\* DeleteEntry_Delete returning the error of the blob delete
DeleteEntry_Delete_Fatal(p) ==
    /\ pc[p] = "d_delete"
    /\ \E s3Err \in BOOLEAN :
        IF s3Err
        THEN /\ Logged(p, "del_err")
             /\ Returns(p, "failed to delete from S3", NoEntry, Absent)
             /\ UNCHANGED blobs
        ELSE /\ blobs' = Delete(loc[p].entry.key)
             /\ Logged(p, "del")
             /\ Goto(p, "d_rowDelete")
             /\ UNCHANGED out
    /\ UNCHANGED <<migVars, journals, titles, entries, versions, nextEntryId, repos, op, loc, pre, ops>>

\* s.s3.Delete: an error is printed and the request goes on
DeleteEntry_Delete(p) ==
    /\ pc[p] = "d_delete"
    /\ \E s3Err \in BOOLEAN :
        IF s3Err THEN Logged(p, "del_err") /\ UNCHANGED blobs
        ELSE blobs' = Delete(loc[p].entry.key) /\ Logged(p, "del")
    /\ Goto(p, "d_rowDelete")
    /\ UNCHANGED <<migVars, journals, titles, entries, versions, nextEntryId, repos, op, loc, out, pre, ops>>

\* s.store.DeleteJournalEntry: its error is the request's result
DeleteEntry_RowDelete(p) ==
    /\ pc[p] = "d_rowDelete"
    /\ \E dbErr \in BOOLEAN :
        IF dbErr
        THEN /\ Returns(p, "delete failed", NoEntry, Absent)
             /\ Logged(p, "rowdel_err")
             /\ UNCHANGED <<entries, versions>>
        ELSE /\ entries' = EntriesAfterDeleteEntry(loc[p].entry.id)
             /\ versions' = VersionsAfterDeleteEntry(loc[p].entry.id)
             /\ Logged(p, "rowdel")
             /\ Returns(p, "none", NoEntry, Absent)
    /\ UNCHANGED <<migVars, journals, titles, nextEntryId, blobs, repos, op, loc, pre, ops>>

\* ------------------------------------------------- Service.DeleteJournal
DateRank(d) == IF d = "d1" THEN 1 ELSE 2

\* ORDER BY entry_date DESC
RECURSIVE ByDateDesc(_)
ByDateDesc(rows) ==
    IF rows = {} THEN <<>>
    ELSE LET e == CHOOSE x \in rows : \A y \in rows : DateRank(y.date) <= DateRank(x.date)
         IN <<e>> \o ByDateDesc(rows \ {e})

DeleteJournal_Start(p, u, j) ==
    /\ ops < MaxOps
    /\ Begin(p, "DeleteJournal", u, j, "none", <<>>)
    /\ ops' = ops + 1
    /\ Goto(p, "j_list")
    /\ UNCHANGED <<migVars, journals, titles, entries, versions, nextEntryId, blobs, repos, out>>

\* DeleteJournal_List going on with no entries after a failed listing
DeleteJournal_List_Ignoring(p) ==
    /\ pc[p] = "j_list"
    /\ \E dbErr \in BOOLEAN :
        /\ loc' = [loc EXCEPT ![p].list =
                      IF dbErr THEN <<>> ELSE ByDateDesc(ListJournalEntries(op[p].journal))]
        /\ IF dbErr THEN Logged(p, "lookup_err") ELSE UNCHANGED log
        /\ Goto(p, "j_blobs")
        /\ UNCHANGED out
    /\ UNCHANGED <<migVars, journals, titles, entries, versions, nextEntryId, blobs, repos, op, pre, ops>>

\* s.store.ListJournalEntries: the journal is not checked against the user
DeleteJournal_List(p) ==
    /\ pc[p] = "j_list"
    /\ \E dbErr \in BOOLEAN :
        IF dbErr
        THEN /\ Returns(p, "failed to list entries", NoEntry, Absent)
             /\ Logged(p, "lookup_err")
             /\ UNCHANGED loc
        ELSE /\ loc' = [loc EXCEPT ![p].list = ByDateDesc(ListJournalEntries(op[p].journal))]
             /\ Goto(p, "j_blobs")
             /\ UNCHANGED <<out, log>>
    /\ UNCHANGED <<migVars, journals, titles, entries, versions, nextEntryId, blobs, repos, op, pre, ops>>

\* DeleteJournal_Blob trying the same entry again after a failed delete
DeleteJournal_Blob_Retrying(p) ==
    /\ pc[p] = "j_blobs"
    /\ loc[p].list # <<>>
    /\ \E s3Err \in BOOLEAN :
        IF s3Err THEN Logged(p, "del_err") /\ UNCHANGED <<blobs, loc>>
        ELSE /\ blobs' = Delete(GenerateKey(op[p].user, op[p].journal, Head(loc[p].list).date))
             /\ Logged(p, "del")
             /\ loc' = [loc EXCEPT ![p].list = Tail(@)]
    /\ UNCHANGED <<migVars, journals, titles, entries, versions, nextEntryId, repos, pc, op, out, pre, ops>>

\* one round of the loop: s.s3.Delete of the key generated from the caller,
\* the journal and the entry's date; an error is printed and the loop goes on
DeleteJournal_Blob(p) ==
    /\ pc[p] = "j_blobs"
    /\ loc[p].list # <<>>
    /\ \E s3Err \in BOOLEAN :
        IF s3Err THEN Logged(p, "del_err") /\ UNCHANGED blobs
        ELSE /\ blobs' = Delete(GenerateKey(op[p].user, op[p].journal, Head(loc[p].list).date))
             /\ Logged(p, "del")
    /\ loc' = [loc EXCEPT ![p].list = Tail(@)]
    /\ UNCHANGED <<migVars, journals, titles, entries, versions, nextEntryId, repos, pc, op, out, pre, ops>>

\* s.store.DeleteJournal: its error is the request's result
DeleteJournal_Row(p) ==
    /\ pc[p] = "j_blobs"
    /\ loc[p].list = <<>>
    /\ \E dbErr \in BOOLEAN :
        IF dbErr
        THEN /\ Returns(p, "delete failed", NoEntry, Absent)
             /\ Logged(p, "jdel_err")
             /\ UNCHANGED <<migVars, journals, titles, entries, versions>>
        ELSE /\ journals' = JournalsAfterDeleteJournal(op[p].journal, op[p].user)
             /\ titles' = TitlesAfterDeleteJournal(op[p].journal, op[p].user)
             /\ entries' = EntriesAfterDeleteJournal(op[p].journal, op[p].user)
             /\ versions' = VersionsAfterDeleteJournal(op[p].journal, op[p].user)
             /\ Logged(p, "jdel")
             /\ Returns(p, "none", NoEntry, Absent)
    /\ UNCHANGED <<migVars, nextEntryId, blobs, repos, op, loc, pre, ops>>

\* ------------------------------------------------- Service.UpdateJournal
\* UPDATE journals SET title = $1 ... WHERE id = $3: the owner is not checked
TitlesAfterUpdateJournal_AnyUser(id, userSub, title) ==
    IF journals[id] \in Users THEN [titles EXCEPT ![id] = title] ELSE titles

\* UPDATE journals SET title = $1, description = $2 WHERE id = $3 AND
\* user_sub = $4 (the description is handled as the title is)
TitlesAfterUpdateJournal(id, userSub, title) ==
    IF GetJournal(id, userSub) THEN [titles EXCEPT ![id] = title] ELSE titles

\* The title of the request is carried in the content field of op.
UpdateJournal_Start(p, u, j, title) ==
    /\ ops < MaxOps
    /\ Begin(p, "UpdateJournal", u, j, "none", title)
    /\ ops' = ops + 1
    /\ Goto(p, "t_update")
    /\ UNCHANGED <<migVars, journals, titles, entries, versions, nextEntryId, blobs, repos, out>>

\* s.store.UpdateJournal: its error is the request's result
UpdateJournal_Row(p) ==
    /\ pc[p] = "t_update"
    /\ \E dbErr \in BOOLEAN :
        IF dbErr
        THEN /\ Returns(p, "update failed", NoEntry, Absent)
             /\ Logged(p, "jupd_err")
             /\ UNCHANGED titles
        ELSE /\ titles' = TitlesAfterUpdateJournal(op[p].journal, op[p].user, op[p].content)
             /\ Logged(p, "jupd")
             /\ Returns(p, "none", NoEntry, Absent)
    /\ UNCHANGED <<migVars, journals, entries, versions, nextEntryId, blobs, repos, op, loc, pre, ops>>

\* ------------------------------------------------------ Service.GetEntry
\* What GetEntry returns in the current state when its backend calls succeed.
GetEntry(userSub, journalID, entryDate) ==
    IF ~ParseOk(entryDate) THEN [err |-> "invalid date format", entry |-> NoEntry, content |-> Absent]
    ELSE IF GetJournalEntryByDate(journalID, entryDate) = NoEntry
    THEN [err |-> "entry not found", entry |-> NoEntry, content |-> Absent]
    ELSE IF ~GetJournal(journalID, userSub)
    THEN [err |-> "journal not found", entry |-> NoEntry, content |-> Absent]
    ELSE IF Download(GetJournalEntryByDate(journalID, entryDate).key) = Absent
    THEN [err |-> "failed to download from S3", entry |-> NoEntry, content |-> Absent]
    ELSE [err |-> "none", entry |-> GetJournalEntryByDate(journalID, entryDate),
          content |-> Download(GetJournalEntryByDate(journalID, entryDate).key)]

\* ----------------------------------------------------- Client.ListCommits
Reverse(s) == [i \in 1..Len(s) |-> s[Len(s) + 1 - i]]

CommitInfos(userSub, r) ==
    [i \in 1..Len(r.commits) |-> [hash |-> <<userSub, i>>, msg |-> r.commits[i].msg]]

\* ListCommitsIn without the final reversal: newest first
ListCommitsIn_NoReverse(userSub, r, path) ==
    SelectSeq(Reverse(CommitInfos(userSub, GetOrInitRepo(r))),
              LAMBDA c : GetOrInitRepo(r).commits[c.hash[2]].tree[path] # Absent)

\* repo.Log from HEAD backward, the commits whose tree holds the file, reversed
ListCommitsIn(userSub, r, path) ==
    Reverse(SelectSeq(Reverse(CommitInfos(userSub, GetOrInitRepo(r))),
                      LAMBDA c : GetOrInitRepo(r).commits[c.hash[2]].tree[path] # Absent))

ListCommits(userSub, journalID, entryDate) ==
    ListCommitsIn(userSub, repos[userSub], EntryPath(journalID, entryDate))

\* --------------------------------------------------- Service.ListVersions
\* What ListVersions returns in the current state when its backend calls succeed.
ListVersions(userSub, journalID, entryDate) ==
    IF ~GetJournal(journalID, userSub) THEN [err |-> "journal not found", commits |-> <<>>]
    ELSE [err |-> "none", commits |-> ListCommits(userSub, journalID, entryDate)]

\* -------------------------------------------------- Client.GetFileContent
\* repo.CommitObject of the hash (HEAD for the empty string), commit.File of
\* the entry's path, and the bytes of that file.  Hashes of another
\* repository are not objects of this one.
CommitIndex(userSub, r, commitHash) ==
    IF commitHash = NoHash THEN Len(r.commits)
    ELSE IF commitHash[1] = userSub /\ commitHash[2] \in 1..Len(r.commits) THEN commitHash[2]
    ELSE 0

GetFileContentIn(userSub, r, path, commitHash) ==
    IF CommitIndex(userSub, GetOrInitRepo(r), commitHash) = 0
    THEN [err |-> "failed to get commit", content |-> Absent]
    ELSE IF GetOrInitRepo(r).commits[CommitIndex(userSub, GetOrInitRepo(r), commitHash)].tree[path] = Absent
    THEN [err |-> "failed to get file from commit", content |-> Absent]
    ELSE [err |-> "none",
          content |-> GetOrInitRepo(r).commits[CommitIndex(userSub, GetOrInitRepo(r), commitHash)].tree[path]]

GetFileContent(userSub, journalID, entryDate, commitHash) ==
    GetFileContentIn(userSub, repos[userSub], EntryPath(journalID, entryDate), commitHash)

\* ----------------------------------------------------- Service.GetVersion
\* What GetVersion returns in the current state when its backend calls succeed.
GetVersion(userSub, journalID, entryDate, commitHash) ==
    IF ~GetJournal(journalID, userSub) THEN [err |-> "journal not found", content |-> Absent]
    ELSE GetFileContent(userSub, journalID, entryDate, commitHash)

\* ------------------------------------------------------- read requests
\* GetEntry, GetVersion and ListVersions as requests: each store lookup, the
\* blob download and the repository read is one step.  "get" and "repo" in
\* the log are the reads of the bucket and of the repository.
BeginRead(p, kind, u, j, d, h) ==
    /\ pc[p] = "idle"
    /\ op' = [op EXCEPT ![p] = [kind |-> kind, user |-> u, journal |-> j, date |-> d, content |-> <<>>]]
    /\ pre' = [pre EXCEPT ![p] = Backends]
    /\ log' = [log EXCEPT ![p] = <<>>]
    /\ loc' = [loc EXCEPT ![p] = [NoLoc EXCEPT !.commit = h]]
    /\ UNCHANGED <<migVars, journals, titles, entries, versions, nextEntryId, blobs, repos, ops>>

\* time.Parse of the date
GetEntry_Start(p, u, j, d) ==
    /\ BeginRead(p, "GetEntry", u, j, d, NoHash)
    /\ IF ParseOk(d) THEN Goto(p, "r_getEntry") /\ UNCHANGED out
       ELSE Returns(p, "invalid date format", NoEntry, Absent)

\* s.store.GetJournalEntryByDate
GetEntry_Lookup(p) ==
    /\ pc[p] = "r_getEntry"
    /\ \E dbErr \in BOOLEAN :
        /\ IF ~dbErr /\ GetJournalEntryByDate(op[p].journal, op[p].date) # NoEntry
           THEN /\ loc' = [loc EXCEPT ![p].entry = GetJournalEntryByDate(op[p].journal, op[p].date)]
                /\ Goto(p, "r_getJournal")
                /\ UNCHANGED out
           ELSE Returns(p, "entry not found", NoEntry, Absent) /\ UNCHANGED loc
        /\ IF dbErr THEN Logged(p, "lookup_err") ELSE UNCHANGED log
    /\ UNCHANGED <<migVars, journals, titles, entries, versions, nextEntryId, blobs, repos, op, pre, ops>>

\* GetEntry_GetJournal with the result of the ownership lookup ignored
GetEntry_GetJournal_Unchecked(p) ==
    /\ pc[p] = "r_getJournal"
    /\ Goto(p, "r_download")
    /\ UNCHANGED <<migVars, journals, titles, entries, versions, nextEntryId, blobs, repos, op, loc, log, out, pre, ops>>

\* s.store.GetJournal: the journal must belong to the caller
GetEntry_GetJournal(p) ==
    /\ pc[p] = "r_getJournal"
    /\ \E dbErr \in BOOLEAN :
        /\ IF ~dbErr /\ GetJournal(op[p].journal, op[p].user)
           THEN Goto(p, "r_download") /\ UNCHANGED out
           ELSE Returns(p, "journal not found", NoEntry, Absent)
        /\ IF dbErr THEN Logged(p, "lookup_err") ELSE UNCHANGED log
    /\ UNCHANGED <<migVars, journals, titles, entries, versions, nextEntryId, blobs, repos, op, loc, pre, ops>>

\* s.s3.Download of the key stored in the entry row
GetEntry_Download(p) ==
    /\ pc[p] = "r_download"
    /\ \E s3Err \in BOOLEAN :
        IF s3Err \/ Download(loc[p].entry.key) = Absent
        THEN /\ Returns(p, "failed to download from S3", NoEntry, Absent)
             /\ Logged(p, "get_err")
        ELSE /\ Returns(p, "none", loc[p].entry, Download(loc[p].entry.key))
             /\ Logged(p, "get")
    /\ UNCHANGED <<migVars, journals, titles, entries, versions, nextEntryId, blobs, repos, op, loc, pre, ops>>

\* GetVersion and ListVersions do not parse the date
GetVersion_Start(p, u, j, d, h) ==
    /\ BeginRead(p, "GetVersion", u, j, d, h)
    /\ Goto(p, "v_getJournal")
    /\ UNCHANGED out

ListVersions_Start(p, u, j, d) ==
    /\ BeginRead(p, "ListVersions", u, j, d, NoHash)
    /\ Goto(p, "v_getJournal")
    /\ UNCHANGED out

\* s.store.GetJournal of GetVersion and ListVersions
Versions_GetJournal(p) ==
    /\ pc[p] = "v_getJournal"
    /\ \E dbErr \in BOOLEAN :
        /\ IF ~dbErr /\ GetJournal(op[p].journal, op[p].user)
           THEN Goto(p, "v_read") /\ UNCHANGED out
           ELSE Returns(p, "journal not found", NoEntry, Absent)
        /\ IF dbErr THEN Logged(p, "lookup_err") ELSE UNCHANGED log
    /\ UNCHANGED <<migVars, journals, titles, entries, versions, nextEntryId, blobs, repos, op, loc, pre, ops>>

\* s.git.GetFileContent / s.git.ListCommits: GetOrInitRepo creates the
\* caller's repository when it is not there yet
Versions_Read(p) ==
    /\ pc[p] = "v_read"
    /\ \E gitErr \in BOOLEAN :
        IF gitErr
        THEN /\ Returns(p, "git read failed", NoEntry, Absent)
             /\ Logged(p, "repo_err")
             /\ UNCHANGED <<repos, loc>>
        ELSE /\ repos' = [repos EXCEPT ![op[p].user] = GetOrInitRepo(@)]
             /\ Logged(p, "repo")
             /\ IF op[p].kind = "GetVersion"
                THEN /\ Returns(p, GetFileContent(op[p].user, op[p].journal, op[p].date, loc[p].commit).err,
                                NoEntry,
                                GetFileContent(op[p].user, op[p].journal, op[p].date, loc[p].commit).content)
                     /\ UNCHANGED loc
                ELSE /\ Returns(p, "none", NoEntry, Absent)
                     /\ loc' = [loc EXCEPT ![p].list = ListCommits(op[p].user, op[p].journal, op[p].date)]
    /\ UNCHANGED <<migVars, journals, titles, entries, versions, nextEntryId, blobs, op, pre, ops>>

\* ---------------------------------------------------- Service.GetJournal
GetJournal_Start(p, u, j) ==
    /\ BeginRead(p, "GetJournal", u, j, "none", NoHash)
    /\ Goto(p, "t_get")
    /\ UNCHANGED out

\* s.store.GetJournal: QueryRow(...).Scan returns sql.ErrNoRows when no row
\* has this id and this user, and the service returns that error as it is
GetJournal_Row(p) ==
    /\ pc[p] = "t_get"
    /\ \E dbErr \in BOOLEAN :
        IF dbErr
        THEN Returns(p, "connection error", NoEntry, Absent) /\ Logged(p, "lookup_err")
        ELSE /\ IF GetJournal(op[p].journal, op[p].user)
                THEN Returns(p, "none", NoEntry, titles[op[p].journal])
                ELSE Returns(p, "sql: no rows in result set", NoEntry, Absent)
             /\ UNCHANGED log
    /\ UNCHANGED <<migVars, journals, titles, entries, versions, nextEntryId, blobs, repos, op, loc, pre, ops>>

\* ------------------------------------------------------- HTTP handlers
\* strings.Contains(err.Error(), "not found") over the errors of the services
ContainsNotFound(err) == err \in {"journal not found", "entry not found"}

\* The status a handler answers for the result of its service call.
HandlerStatus(kind, err) ==
    IF err = "none" THEN (IF kind \in {"DeleteJournal", "DeleteEntry"} THEN 204 ELSE 200)
    ELSE IF ContainsNotFound(err) THEN 404
    ELSE 500

\* -------------------------------------------- migrations.RunMigrations
\* A deploy puts another migration file into the directory.
AddMigration(f) ==
    /\ mig.pc = "idle"
    /\ f \notin dir
    /\ dir' = dir \cup {f}
    /\ UNCHANGED <<serviceVars, schema_migrations, schema, tx, mig, stdout>>

Failed(e) == mig' = [mig EXCEPT !.pc = "done", !.err = e]

\* findMigrationsDir, ensureMigrationsTable, getMigrationFiles
RunMigrations_Start ==
    /\ mig.pc = "idle"
    /\ mig.runs < MaxRuns
    /\ \E fail \in BOOLEAN :
        IF fail
        THEN mig' = [NoRun EXCEPT !.pc = "done", !.err = "failed to get migration files", !.runs = mig.runs + 1]
        ELSE mig' = [NoRun EXCEPT !.pc = "m_check", !.files = getMigrationFiles(dir), !.runs = mig.runs + 1]
    /\ UNCHANGED <<serviceVars, dir, schema_migrations, schema, tx, stdout>>

\* head of the loop over the files and isMigrationRun
RunMigrations_Check ==
    /\ mig.pc = "m_check"
    /\ IF mig.i > Len(mig.files)
       THEN mig' = [mig EXCEPT !.pc = "done"] /\ UNCHANGED stdout
       ELSE \E dbErr \in BOOLEAN :
            IF dbErr THEN Failed("failed to check migration status") /\ UNCHANGED stdout
            ELSE IF isMigrationRun(mig.files[mig.i])
                 THEN /\ stdout' = Append(stdout, <<"skipping", mig.files[mig.i]>>)
                      /\ mig' = [mig EXCEPT !.i = @ + 1]
                 ELSE /\ stdout' = Append(stdout, <<"Running", mig.files[mig.i]>>)
                      /\ mig' = [mig EXCEPT !.pc = "m_begin"]
    /\ UNCHANGED <<serviceVars, dir, schema_migrations, schema, tx>>

\* os.ReadFile and db.BeginTx
RunMigrations_Begin ==
    /\ mig.pc = "m_begin"
    /\ \E fail \in BOOLEAN :
        IF fail THEN Failed("failed to begin transaction") /\ UNCHANGED tx
        ELSE /\ tx' = [open |-> TRUE, stmts |-> <<>>, rows |-> <<>>]
             /\ mig' = [mig EXCEPT !.pc = "m_exec", !.k = 1]
    /\ UNCHANGED <<serviceVars, dir, schema_migrations, schema, stdout>>

\* tx.ExecContext of the next statement; tx.Rollback and return when it fails
RunMigrations_Exec ==
    /\ mig.pc = "m_exec"
    /\ IF mig.k > Len(Statements(mig.files[mig.i]))
       THEN mig' = [mig EXCEPT !.pc = "m_record"] /\ UNCHANGED tx
       ELSE \E fail \in BOOLEAN :
            IF fail THEN Failed("failed to execute migration statement") /\ tx' = NoTx
            ELSE /\ tx' = [tx EXCEPT !.stmts = Append(@, Statements(mig.files[mig.i])[mig.k])]
                 /\ mig' = [mig EXCEPT !.k = @ + 1]
    /\ UNCHANGED <<serviceVars, dir, schema_migrations, schema, stdout>>

\* INSERT INTO schema_migrations inside the transaction; migration_name is
\* the primary key
RunMigrations_Record ==
    /\ mig.pc = "m_record"
    /\ \E dbErr \in BOOLEAN :
        IF dbErr \/ isMigrationRun(mig.files[mig.i])
        THEN Failed("failed to record migration") /\ tx' = NoTx
        ELSE /\ tx' = [tx EXCEPT !.rows = Append(@, mig.files[mig.i])]
             /\ mig' = [mig EXCEPT !.pc = "m_commit"]
    /\ UNCHANGED <<serviceVars, dir, schema_migrations, schema, stdout>>

\* tx.Commit: the statements and the record become visible together
RunMigrations_Commit ==
    /\ mig.pc = "m_commit"
    /\ \E fail \in BOOLEAN :
        IF fail
        THEN /\ Failed("failed to commit migration")
             /\ tx' = NoTx
             /\ UNCHANGED <<schema_migrations, schema, stdout>>
        ELSE /\ schema' = schema \o tx.stmts
             /\ schema_migrations' = schema_migrations \o tx.rows
             /\ tx' = NoTx
             /\ stdout' = Append(stdout, <<"completed", mig.files[mig.i]>>)
             /\ mig' = [mig EXCEPT !.pc = "m_check", !.i = @ + 1, !.applied = Append(@, mig.files[mig.i])]
    /\ UNCHANGED <<serviceVars, dir>>

\* RunMigrations has returned and the process has ended
RunMigrations_Return ==
    /\ mig.pc = "done"
    /\ mig' = [mig EXCEPT !.pc = "idle"]
    /\ UNCHANGED <<serviceVars, dir, schema_migrations, schema, tx, stdout>>

\* ----------------------------------------------------------- specification
StepOver(p, users, dates, contents) ==
    \/ \E u \in JournalOwners, t \in CreateTitles : CreateJournal(p, u, t)
    \/ \E u \in users, j \in JournalIds, d \in dates, c \in contents :
        CreateEntry_Start(p, u, j, d, c)
    \/ CreateEntry_GetJournal(p)
    \/ CreateEntry_CheckEntry(p)
    \/ CreateEntry_Upload(p)
    \/ CreateEntry_CommitFailed(p)
    \/ CreateEntry_Insert(p)
    \/ CreateEntry_InsertFailed(p)
    \/ CreateEntry_Version(p)
    \/ CommitFile_Open(p)
    \/ CommitFile_Write(p)
    \/ CommitFile_Add(p)
    \/ CommitFile_Status(p)
    \/ CommitFile_Commit(p)
    \/ \E u \in users, j \in JournalIds, d \in dates, c \in contents :
        UpdateEntry_Start(p, u, j, d, c)
    \/ UpdateEntry_GetEntry(p)
    \/ UpdateEntry_GetJournal(p)
    \/ UpdateEntry_Upload(p)
    \/ UpdateEntry_Update(p)
    \/ UpdateEntry_Version(p)
    \/ \E u \in users, j \in JournalIds, d \in dates : DeleteEntry_Start(p, u, j, d)
    \/ DeleteEntry_GetEntry(p)
    \/ DeleteEntry_GetJournal(p)
    \/ DeleteEntry_Delete(p)
    \/ DeleteEntry_RowDelete(p)
    \/ \E u \in users, j \in JournalIds : DeleteJournal_Start(p, u, j)
    \/ DeleteJournal_List(p)
    \/ DeleteJournal_Blob(p)
    \/ DeleteJournal_Row(p)
    \/ Return(p)

Step(p) == StepOver(p, Users, DateInputs, RawContents)

\* One request at a time: the requests of a single client.
Next == Step("p1")

Spec == Init /\ [][Next]_vars

\* The commit ids a caller asks for: the first commits of the owner's history.
HashInputs == JournalOwners \X (1..2)

\* The requests of a single client, reads included.
ReadStep(p) ==
    \/ \E u \in Users, j \in JournalIds, d \in DateInputs : GetEntry_Start(p, u, j, d)
    \/ GetEntry_Lookup(p)
    \/ GetEntry_GetJournal(p)
    \/ GetEntry_Download(p)
    \/ \E u \in Users, j \in JournalIds, d \in Dates, h \in HashInputs :
        GetVersion_Start(p, u, j, d, h)
    \/ \E u \in Users, j \in JournalIds, d \in Dates : ListVersions_Start(p, u, j, d)
    \/ Versions_GetJournal(p)
    \/ Versions_Read(p)

NextReads == Step("p1") \/ ReadStep("p1")

\* Every backend call returns, so a request that has a step to take takes it.
\* The requests of the owner with one content.
LiveContents == { <<"a", "CR", "LF", "b">> }

NextLive == StepOver("p1", JournalOwners, DateInputs, LiveContents)

SpecLive == Init /\ [][NextLive]_vars /\ WF_vars(NextLive)

SpecReads == Init /\ [][NextReads]_vars

\* The requests of a single client, changes of a journal's title included.
JournalStep(p) ==
    \/ \E u \in Users, j \in JournalIds, t \in Titles : UpdateJournal_Start(p, u, j, t)
    \/ UpdateJournal_Row(p)
    \/ \E u \in Users, j \in JournalIds : GetJournal_Start(p, u, j)
    \/ GetJournal_Row(p)

NextJournals == Step("p1") \/ JournalStep("p1")

SpecJournals == Init /\ [][NextJournals]_vars

\* The owner's requests for one date with contents that are blank, that
\* normalize to the empty text, and that hold words of several characters
\* between runs of blanks and line ends.
WordDates == {"d1"}
WordContents ==
    { <<"SP">>, <<"NUL">>, <<"a", "b", "SP", "SP", "a">>, <<"SP", "a", "CR", "LF", "b", "LF">> }

NextWords == StepOver("p1", JournalOwners, WordDates, WordContents)

SpecWords == Init /\ [][NextWords]_vars

\* The helper functions on their own: sanitizeMarkdown and countWords applied
\* to every text of up to MaxLen characters.  The text is the content of the
\* call, the results are its returned content and word count.
MaxLen == 4
Chars == {"a", "SP", "NUL", "CR", "LF"}
Texts == UNION {[1..n -> Chars] : n \in 0..MaxLen}

InitPure ==
    /\ Migrated
    /\ journals = [j \in JournalIds |-> "none"]
    /\ titles = [j \in JournalIds |-> Absent]
    /\ entries = {}
    /\ versions = {}
    /\ nextEntryId = 1
    /\ blobs = [k \in Keys |-> Absent]
    /\ repos = [u \in Users |-> NoRepo]
    /\ pc = [p \in Procs |-> IF p = "p1" THEN "s_sanitize" ELSE "idle"]
    /\ \E x \in Texts :
        op = [p \in Procs |-> IF p = "p1" THEN [NoOp EXCEPT !.kind = "sanitizeMarkdown", !.content = x]
                              ELSE NoOp]
    /\ loc = [p \in Procs |-> NoLoc]
    /\ log = [p \in Procs |-> <<>>]
    /\ out = [p \in Procs |-> NoOut]
    /\ pre = [p \in Procs |-> NoPre]
    /\ ops = 0

Sanitize(p) ==
    /\ pc[p] = "s_sanitize"
    /\ out' = [out EXCEPT ![p].content = sanitizeMarkdown(op[p].content)]
    /\ Goto(p, "s_count")
    /\ UNCHANGED <<migVars, journals, titles, entries, versions, nextEntryId, blobs, repos, op, loc, log, pre, ops>>

CountWords(p) ==
    /\ pc[p] = "s_count"
    /\ out' = [out EXCEPT ![p].entry.wc = countWords(out[p].content)]
    /\ Goto(p, "done")
    /\ UNCHANGED <<migVars, journals, titles, entries, versions, nextEntryId, blobs, repos, op, loc, log, pre, ops>>

NextPure == Sanitize("p1") \/ CountWords("p1")

SpecPure == InitPure /\ [][NextPure]_vars

\* RunMigrations on its own, at most MaxRuns times over a database that
\* starts empty, with migration files arriving between the runs.
InitMigrations ==
    /\ dir \in SUBSET Migrations
    /\ schema_migrations = <<>>
    /\ schema = <<>>
    /\ tx = NoTx
    /\ mig = NoRun
    /\ stdout = <<>>
    /\ journals = [j \in JournalIds |-> "none"]
    /\ titles = [j \in JournalIds |-> Absent]
    /\ entries = {}
    /\ versions = {}
    /\ nextEntryId = 1
    /\ blobs = [k \in Keys |-> Absent]
    /\ repos = [u \in Users |-> NoRepo]
    /\ pc = [p \in Procs |-> "idle"]
    /\ op = [p \in Procs |-> NoOp]
    /\ loc = [p \in Procs |-> NoLoc]
    /\ log = [p \in Procs |-> <<>>]
    /\ out = [p \in Procs |-> NoOut]
    /\ pre = [p \in Procs |-> NoPre]
    /\ ops = 0

NextMigrations ==
    \/ \E f \in Migrations : AddMigration(f)
    \/ RunMigrations_Start
    \/ RunMigrations_Check
    \/ RunMigrations_Begin
    \/ RunMigrations_Exec
    \/ RunMigrations_Record
    \/ RunMigrations_Commit
    \/ RunMigrations_Return

SpecMigrations == InitMigrations /\ [][NextMigrations]_vars

\* Two requests of one user at a time, as two goroutines of the HTTP server
\* run them: any interleaving of their steps.
MaxConcOps == 2
ConcUsers == {"u1"}
ConcDates == {"d1"}
ConcContents == { <<"a">>, <<"a", "CR", "LF", "b">> }

NextConc ==
    \E p \in Procs :
        /\ StepOver(p, ConcUsers, ConcDates, ConcContents)
        /\ ops' <= MaxConcOps

SpecConc == Init /\ [][NextConc]_vars

\* Races on an existing entry.  The entry is created by a request that runs
\* alone and whose backend calls succeed; after it the requests of two
\* goroutines, each an UpdateEntry or a DeleteEntry of the owner, interleave
\* step by step.
RaceStep(p) ==
    \/ \E u \in JournalOwners, t \in CreateTitles : CreateJournal(p, u, t)
    \/ \E u \in ConcUsers, j \in JournalIds, d \in ConcDates, c \in ConcContents :
        CreateEntry_Start(p, u, j, d, c)
    \/ CreateEntry_GetJournal(p)
    \/ CreateEntry_CheckEntry(p)
    \/ CreateEntry_Upload(p)
    \/ CreateEntry_Insert(p)
    \/ CreateEntry_Version(p)
    \/ CommitFile_Open(p)
    \/ CommitFile_Write(p)
    \/ CommitFile_Add(p)
    \/ CommitFile_Status(p)
    \/ CommitFile_Commit(p)
    \/ \E u \in ConcUsers, j \in JournalIds, d \in ConcDates, c \in ConcContents :
        UpdateEntry_Start(p, u, j, d, c)
    \/ UpdateEntry_GetEntry(p)
    \/ UpdateEntry_GetJournal(p)
    \/ UpdateEntry_Upload(p)
    \/ UpdateEntry_Update(p)
    \/ UpdateEntry_Version(p)
    \/ \E u \in ConcUsers, j \in JournalIds, d \in ConcDates : DeleteEntry_Start(p, u, j, d)
    \/ DeleteEntry_GetEntry(p)
    \/ DeleteEntry_GetJournal(p)
    \/ DeleteEntry_Delete(p)
    \/ DeleteEntry_RowDelete(p)
    \/ Return(p)

SetupAlone ==
    \A p \in Procs :
        op[p].kind = "CreateEntry" =>
            /\ \A q \in Procs \ {p} : pc[q] = "idle"
            /\ \A i \in 1..Len(log[p]) :
                log[p][i] \notin {"lookup_err", "put_err", "commit_err", "insert_err",
                                  "insert_lost", "version_err"}

NextRace == \E p \in Procs : RaceStep(p) /\ SetupAlone'

SpecRace == Init /\ [][NextRace]_vars

\* ================================================================= claims
\* The normal form of a text as the specification words it: NUL removed, and
\* in one pass from the left every CR LF pair and every other CR made one LF.
RECURSIVE LineFeeds(_)
LineFeeds(s) ==
    IF s = <<>> THEN <<>>
    ELSE IF s[1] = "CR" /\ Len(s) >= 2 /\ s[2] = "LF" THEN <<"LF">> \o LineFeeds(SubSeq(s, 3, Len(s)))
    ELSE IF s[1] = "CR" THEN <<"LF">> \o LineFeeds(Tail(s))
    ELSE <<s[1]>> \o LineFeeds(Tail(s))

Normalize(x) == LineFeeds(SelectSeq(x, LAMBDA c : c # "NUL"))

Finished(p, kind) == pc[p] = "done" /\ op[p].kind = kind
Has(p, ev) == \E i \in 1..Len(log[p]) : log[p][i] = ev
Writes(p) == SelectSeq(log[p], LAMBDA ev : ev # "lookup_err")
EntryKey(p) == GenerateKey(op[p].user, op[p].journal, op[p].date)

\* C1: a successful CreateEntry followed at once by GetEntry by the same user
\* returns exactly the normal form of the content written, with no CR and
\* no NUL in it.
C1_CreateThenGet ==
    \A p \in Procs :
        (Finished(p, "CreateEntry") /\ out[p].err = "none") =>
            LET g == GetEntry(op[p].user, op[p].journal, op[p].date)
            IN /\ g.err = "none"
               /\ g.content = Normalize(op[p].content)
               /\ \A i \in 1..Len(g.content) : g.content[i] \notin {"CR", "NUL"}

C1_Witness ==
    \E p \in Procs :
        /\ Finished(p, "CreateEntry") /\ out[p].err = "none"
        /\ \E i \in 1..Len(op[p].content) : op[p].content[i] = "CR"
        /\ GetEntry(op[p].user, op[p].journal, op[p].date).content # op[p].content

\* C3: a saga attempts its steps in the order A (blob put), B (commit),
\* C (entry row), D (version row), each only after every earlier one
\* succeeded; when step C is attempted the blob and the commit hold the
\* content, and a saga changes the entries table only after A and B succeeded.
StepNo(ev) ==
    IF ev \in {"put", "put_err"} THEN 1
    ELSE IF ev \in {"commit", "head", "commit_err"} THEN 2
    ELSE IF ev \in {"insert", "insert_err", "insert_lost", "update", "update_err"} THEN 3
    ELSE IF ev \in {"version", "version_err"} THEN 4
    ELSE 0
Succeeded(ev) == ev \in {"put", "commit", "head", "insert", "update", "version"}
SagaSteps(p) == SelectSeq(log[p], LAMBDA ev : StepNo(ev) > 0)

C3_StepOrder ==
    \A p \in Procs :
        op[p].kind \in {"CreateEntry", "UpdateEntry"} =>
            /\ \A i \in 1..Len(SagaSteps(p)) :
                /\ StepNo(SagaSteps(p)[i]) = i
                /\ i < Len(SagaSteps(p)) => Succeeded(SagaSteps(p)[i])
            /\ pc[p] \in {"c_insert", "u_update"} =>
                /\ Has(p, "put")
                /\ Has(p, "commit") \/ Has(p, "head")
                /\ loc[p].commit[1] = op[p].user
                /\ loc[p].commit[2] \in 1..Len(Repo(p).commits)
                /\ Repo(p).commits[loc[p].commit[2]].tree[Path(p)] = Content(p)
            /\ (pc[p] # "idle" /\ entries # pre[p].entries) =>
                Has(p, "put") /\ (Has(p, "commit") \/ Has(p, "head"))

C3_Witness ==
    \E p \in Procs :
        /\ Finished(p, "UpdateEntry")
        /\ log[p] = <<"put", "commit", "update", "version">>

\* C4: when the commit of CreateEntry fails, the blob delete is attempted, no
\* entry or version row is added, and the caller gets the commit error even
\* when the delete fails too.
C4_CommitFailureCompensated ==
    \A p \in Procs :
        (Finished(p, "CreateEntry") /\ Has(p, "commit_err")) =>
            /\ out[p].err = "failed to commit to Git"
            /\ Writes(p) \in {<<"put", "commit_err", "del">>, <<"put", "commit_err", "del_err">>}
            /\ entries = pre[p].entries
            /\ versions = pre[p].versions
            /\ Has(p, "del") => blobs[EntryKey(p)] = Absent

C4_Witness ==
    \E p \in Procs :
        /\ Finished(p, "CreateEntry")
        /\ Writes(p) = <<"put", "commit_err", "del_err">>
        /\ blobs[EntryKey(p)] # Absent

\* C6: once steps A to C of CreateEntry or UpdateEntry succeeded the request
\* succeeds whether or not the version row was stored: it returns the entry,
\* the row carries the commit id of step B, and GetEntry returns the content.
C6_VersionFailureNotFatal ==
    \A p \in Procs :
        (pc[p] = "done" /\ (Has(p, "insert") \/ Has(p, "update"))) =>
            /\ out[p].err = "none"
            /\ out[p].entry \in entries
            /\ out[p].entry.commit = loc[p].commit
            /\ GetJournalEntryByDate(op[p].journal, op[p].date) = out[p].entry
            /\ GetEntry(op[p].user, op[p].journal, op[p].date).err = "none"
            /\ GetEntry(op[p].user, op[p].journal, op[p].date).content = Normalize(op[p].content)

C6_Witness ==
    \E p \in Procs :
        /\ Finished(p, "CreateEntry")
        /\ Has(p, "insert") /\ Has(p, "version_err")
        /\ ~\E v \in versions : v.entry = out[p].entry.id

\* C7: when the blob put of CreateEntry fails the request ends with the
\* upload error and nothing has happened: no commit, no row, no blob change,
\* no compensation.
C7_UploadFailureAborts ==
    \A p \in Procs :
        (op[p].kind = "CreateEntry" /\ Has(p, "put_err")) =>
            /\ pc[p] = "done"
            /\ out[p].err = "failed to upload to S3"
            /\ Writes(p) = <<"put_err">>
            /\ repos = pre[p].repos
            /\ entries = pre[p].entries
            /\ versions = pre[p].versions
            /\ blobs = pre[p].blobs

C7_Witness ==
    \E p \in Procs : Finished(p, "CreateEntry") /\ Has(p, "put_err")

\* C2: a CreateEntry by the owner for a (journal, date) that already has an
\* entry fails with "already exists" and changes nothing, whatever the
\* existence lookup returned.
C2_DuplicateCreateHasNoEffect ==
    \A p \in Procs :
        ( /\ Finished(p, "CreateEntry")
          /\ ParseOk(op[p].date)
          /\ pre[p].journals[op[p].journal] = op[p].user
          /\ \E e \in pre[p].entries : e.journal = op[p].journal /\ e.date = op[p].date
          /\ out[p].err # "journal not found" ) =>
            /\ out[p].err = "already exists"
            /\ Writes(p) = <<>>
            /\ Backends = pre[p]

\* C5: when the entry insert of CreateEntry fails, the blob delete is
\* attempted, the commit of step B stays, no version row is added, an error
\* is returned and the entries table is as it was.
C5_InsertFailureLeavesNoRow ==
    \A p \in Procs :
        (Finished(p, "CreateEntry") /\ (Has(p, "insert_err") \/ Has(p, "insert_lost"))) =>
            /\ out[p].err = "failed to save entry"
            /\ Has(p, "del") \/ Has(p, "del_err")
            /\ loc[p].commit[2] \in 1..Len(Repo(p).commits)
            /\ Repo(p).commits[loc[p].commit[2]].tree[Path(p)] = Content(p)
            /\ versions = pre[p].versions
            /\ entries = pre[p].entries

\* C8: in CreateEntry, UpdateEntry and DeleteEntry a validation error or a
\* lookup error, a failed lookup included, ends the request before any
\* backend write.
C8_LookupErrorsShortCircuit ==
    \A p \in Procs :
        ( /\ op[p].kind \in {"CreateEntry", "UpdateEntry", "DeleteEntry"}
          /\ \/ Has(p, "lookup_err")
             \/ pc[p] = "done" /\ out[p].err \in {"invalid date format", "journal not found", "entry not found"} ) =>
            /\ Writes(p) = <<>>
            /\ Backends = pre[p]
            /\ pc[p] = "done" => out[p].err # "none"

\* The version rows of an entry, and the state a request found at its start.
VersionsOf(vs, id) == {v \in vs : v.entry = id}
PreRepo(p) == pre[p].repos[op[p].user]
PreRow(p) == CHOOSE e \in pre[p].entries : e.id = loc[p].entry.id

\* C9: a successful UpdateEntry whose normalized content equals the content
\* recorded for the entry (in the blob, at the head of a clean repository and
\* at the commit of the entry row, whose version row is present) creates no
\* commit, adds no version row for the entry and leaves the length of
\* ListVersions unchanged.
C9_UnchangedUpdateAddsNothing ==
    \A p \in Procs :
        ( /\ Finished(p, "UpdateEntry")
          /\ out[p].err = "none"
          /\ pre[p].blobs[loc[p].entry.key] = Content(p)
          /\ PreRepo(p).init
          /\ IsClean(PreRepo(p))
          /\ HeadTree(PreRepo(p))[Path(p)] = Content(p)
          /\ PreRow(p).commit[2] \in 1..Len(PreRepo(p).commits)
          /\ PreRepo(p).commits[PreRow(p).commit[2]].tree[Path(p)] = Content(p)
          /\ \E v \in pre[p].versions : v.entry = PreRow(p).id /\ v.commit = PreRow(p).commit ) =>
            /\ Repo(p).commits = PreRepo(p).commits
            /\ VersionsOf(versions, loc[p].entry.id) = VersionsOf(pre[p].versions, loc[p].entry.id)
            /\ Len(ListCommitsIn(op[p].user, Repo(p), Path(p)))
                 = Len(ListCommitsIn(op[p].user, PreRepo(p), Path(p)))

\* C10: a successful UpdateEntry whose normalized content differs from the
\* entry's current content (the blob GetEntry reads) adds exactly one version row for the entry and
\* stores in the entry row the id of a newly created commit, different from
\* the id stored before.
C10_ChangedUpdateAddsOneVersion ==
    \A p \in Procs :
        ( /\ Finished(p, "UpdateEntry")
          /\ out[p].err = "none"
          /\ pre[p].blobs[loc[p].entry.key] # Absent
          /\ pre[p].blobs[loc[p].entry.key] # Content(p) ) =>
            /\ Cardinality(VersionsOf(versions, loc[p].entry.id))
                 = Cardinality(VersionsOf(pre[p].versions, loc[p].entry.id)) + 1
            /\ Len(Repo(p).commits) = Len(PreRepo(p).commits) + 1
            /\ GetJournalEntryByDate(op[p].journal, op[p].date).commit = HeadHash(op[p].user, Repo(p))
            /\ GetJournalEntryByDate(op[p].journal, op[p].date).commit # PreRow(p).commit

\* C10 (amended): a successful UpdateEntry whose normalized content differs
\* from the content recorded for the entry at the head of the user's
\* repository creates exactly one commit, stores its id, different from the
\* id stored before, in the entry row, and adds exactly one version row for
\* the entry, or none when the version insert failed.
C10_ChangedUpdateAdvancesCommit ==
    \A p \in Procs :
        ( /\ Finished(p, "UpdateEntry")
          /\ out[p].err = "none"
          /\ PreRepo(p).init
          /\ HeadTree(PreRepo(p))[Path(p)] # Content(p) ) =>
            /\ Cardinality(VersionsOf(versions, loc[p].entry.id))
                 = Cardinality(VersionsOf(pre[p].versions, loc[p].entry.id))
                     + (IF Has(p, "version_err") THEN 0 ELSE 1)
            /\ Len(Repo(p).commits) = Len(PreRepo(p).commits) + 1
            /\ HeadTree(Repo(p))[Path(p)] = Content(p)
            /\ GetJournalEntryByDate(op[p].journal, op[p].date).commit = HeadHash(op[p].user, Repo(p))
            /\ GetJournalEntryByDate(op[p].journal, op[p].date).commit # PreRow(p).commit

C10_Witness ==
    \E p \in Procs :
        /\ Finished(p, "UpdateEntry")
        /\ out[p].err = "none"
        /\ log[p] = <<"put", "commit", "update", "version">>
        /\ pre[p].blobs[loc[p].entry.key] \notin {Absent, Content(p)}
        /\ Cardinality(VersionsOf(versions, loc[p].entry.id)) = 2

\* C11: history is immutable.  The commit id returned by a successful
\* CreateEntry or UpdateEntry with content x makes GetVersion return the
\* normal form of x, and what GetVersion returns for a commit id and a path
\* of a user's repository is the same after every later step of any request.
AllHashes == {NoHash} \cup (Users \X (0..(MaxOps + 2)))

C11_HistoryImmutable ==
    /\ [](\A p \in Procs :
            (pc[p] = "done" /\ op[p].kind \in {"CreateEntry", "UpdateEntry"} /\ out[p].err = "none") =>
                /\ GetVersion(op[p].user, op[p].journal, op[p].date, out[p].entry.commit).err = "none"
                /\ GetVersion(op[p].user, op[p].journal, op[p].date, out[p].entry.commit).content
                     = Normalize(op[p].content))
    /\ [][\A u \in Users, path \in Paths, h \in AllHashes \ {NoHash} :
            GetFileContentIn(u, repos[u], path, h).err = "none" =>
                GetFileContentIn(u, repos'[u], path, h) = GetFileContentIn(u, repos[u], path, h)]_vars

C11_Witness ==
    \E p \in Procs :
        /\ Finished(p, "UpdateEntry")
        /\ out[p].err = "none"
        /\ PreRow(p).commit # out[p].entry.commit
        /\ GetVersion(op[p].user, op[p].journal, op[p].date, PreRow(p).commit).err = "none"
        /\ GetVersion(op[p].user, op[p].journal, op[p].date, PreRow(p).commit).content
             # GetVersion(op[p].user, op[p].journal, op[p].date, out[p].entry.commit).content
        /\ GetEntry(op[p].user, op[p].journal, op[p].date).content
             = GetVersion(op[p].user, op[p].journal, op[p].date, out[p].entry.commit).content

\* C12: after a successful DeleteEntry of (journal, date) GetEntry reports
\* NotFound for it, after a successful DeleteJournal by the owner GetEntry
\* reports NotFound for every date of the journal and no entry or version row
\* of the journal remains, and GetEntry stops reporting NotFound for a
\* (journal, date) only when a CreateEntry for it stores the entry row.
NotFound == {"entry not found", "journal not found"}

C12_DeletedIsNotFound ==
    /\ [](\A p \in Procs :
            (Finished(p, "DeleteEntry") /\ out[p].err = "none") =>
                \A u \in Users : GetEntry(u, op[p].journal, op[p].date).err \in NotFound)
    /\ [](\A p \in Procs :
            (Finished(p, "DeleteJournal") /\ out[p].err = "none"
                /\ pre[p].journals[op[p].journal] = op[p].user) =>
                /\ \A u \in Users, d \in Dates : GetEntry(u, op[p].journal, d).err \in NotFound
                /\ ~\E e \in entries : e.journal = op[p].journal
                /\ \A v \in versions : \E e \in entries : e.id = v.entry /\ e.journal # op[p].journal)
    /\ [][\A u \in Users, j \in JournalIds, d \in Dates :
            (GetEntry(u, j, d).err \in NotFound /\ GetEntry(u, j, d)'.err \notin NotFound) =>
                \E p \in Procs :
                    /\ op[p].kind = "CreateEntry" /\ op[p].journal = j /\ op[p].date = d
                    /\ pc[p] = "c_insert" /\ entries' # entries]_vars

C12_Witness ==
    \E p \in Procs :
        /\ Finished(p, "DeleteJournal") /\ out[p].err = "none"
        /\ pre[p].journals[op[p].journal] = op[p].user
        /\ \E e \in pre[p].entries :
            /\ e.journal = op[p].journal
            /\ blobs[e.key] # Absent
            /\ \E v \in pre[p].versions : v.entry = e.id
            /\ GetEntry(op[p].user, e.journal, e.date).err = "entry not found"

\* C13: ListVersions for an entry of an owned journal returns exactly one
\* record per commit that changed the entry's file, and no record for a
\* commit made by a write to another entry of the same user.
ChangedIn(r, path) ==
    {i \in 2..Len(r.commits) : r.commits[i].tree[path] # r.commits[i - 1].tree[path]}

C13_OneRecordPerChange ==
    \A j \in JournalIds, d \in Dates :
        journals[j] \in Users =>
            LET l == ListVersions(journals[j], j, d)
            IN /\ l.err = "none"
               /\ Len(l.commits) = Cardinality(ChangedIn(GetOrInitRepo(repos[journals[j]]), EntryPath(j, d)))
               /\ \A i \in 1..Len(l.commits) :
                    l.commits[i].hash[2] \in ChangedIn(GetOrInitRepo(repos[journals[j]]), EntryPath(j, d))

\* C14: the sequence returned by ListCommits / ListVersions is oldest first:
\* of two records the earlier one is an ancestor of the later one in the
\* user's history, and the last one is the most recent commit holding the file.
C14_OldestFirst ==
    \A u \in Users, path \in Paths :
        LET l == ListCommitsIn(u, repos[u], path)
        IN /\ \A i \in 1..Len(l), k \in 1..Len(l) : i < k => l[i].hash[2] < l[k].hash[2]
           /\ \A i \in 1..Len(l) : l[i].hash[1] = u /\ l[i].hash[2] \in 1..Len(repos[u].commits)
           /\ Len(l) > 0 =>
                \A n \in 1..Len(repos[u].commits) :
                    repos[u].commits[n].tree[path] # Absent => n <= l[Len(l)].hash[2]

C14_Witness ==
    \E p \in Procs :
        /\ Finished(p, "UpdateEntry") /\ out[p].err = "none"
        /\ LET l == ListVersions(op[p].user, op[p].journal, op[p].date).commits
           IN /\ Len(l) >= 2
              /\ l[1].msg = EntryMessage(op[p].date)
              /\ l[Len(l)].msg = UpdateMessage(op[p].date)
              /\ l[Len(l)].hash = out[p].entry.commit

\* C15 as stated: every GetEntry, GetVersion or ListVersions call of a user
\* who does not own the journal ends with NotFound, and reads neither the
\* bucket nor a repository.
IsRead(p) == op[p].kind \in {"GetEntry", "GetVersion", "ListVersions"}
Stranger(p) == pre[p].journals[op[p].journal] # op[p].user

C15_StrangerGetsNotFound ==
    \A p \in Procs :
        (IsRead(p) /\ Stranger(p)) =>
            /\ ~Has(p, "get") /\ ~Has(p, "repo") /\ ~Has(p, "get_err") /\ ~Has(p, "repo_err")
            /\ repos = pre[p].repos
            /\ pc[p] = "done" => out[p].err \in NotFound

\* C15 (amended): such a call returns no content and no history and reads
\* neither the bucket nor a repository; it ends with NotFound, or, for a
\* GetEntry with a malformed date, with the validation error.
C15_StrangerReadsNothing ==
    \A p \in Procs :
        (IsRead(p) /\ Stranger(p)) =>
            /\ ~Has(p, "get") /\ ~Has(p, "repo") /\ ~Has(p, "get_err") /\ ~Has(p, "repo_err")
            /\ repos = pre[p].repos
            /\ loc[p].list = <<>>
            /\ pc[p] = "done" =>
                /\ out[p].content = Absent
                /\ out[p].entry = NoEntry
                /\ IF op[p].kind = "GetEntry" /\ ~ParseOk(op[p].date)
                   THEN out[p].err = "invalid date format"
                   ELSE out[p].err \in NotFound

C15_Witness ==
    \E p \in Procs :
        /\ Finished(p, "GetEntry")
        /\ Stranger(p)
        /\ loc[p].entry # NoEntry
        /\ blobs[loc[p].entry.key] # Absent
        /\ out[p].err = "journal not found"

\* C16: every journal-scoped request of a user who does not own the journal,
\* or on a journal that does not exist, reports NotFound when its date is
\* well-formed and no backend call fails; DeleteJournal does not report
\* success in that case.
BackendErrors ==
    {"lookup_err", "put_err", "commit_err", "insert_err", "insert_lost", "update_err", "version_err",
     "del_err", "rowdel_err", "jdel_err", "get_err", "repo_err"}

C16_StrangerWritesNotFound ==
    \A p \in Procs :
        ( /\ pc[p] = "done"
          /\ op[p].kind \in {"CreateEntry", "UpdateEntry", "DeleteEntry", "DeleteJournal"}
          /\ Stranger(p)
          /\ op[p].kind # "DeleteJournal" => ParseOk(op[p].date)
          /\ \A i \in 1..Len(log[p]) : log[p][i] \notin BackendErrors ) =>
            out[p].err \in NotFound

\* C17: the sagas of one user are serialized: no two CreateEntry/UpdateEntry
\* requests of the same user are both between the start of step A and the end
\* of step D.
InSaga(p) ==
    /\ op[p].kind \in {"CreateEntry", "UpdateEntry"}
    /\ pc[p] \notin {"idle", "done", "c_getJournal", "c_checkEntry", "c_upload",
                     "u_getEntry", "u_getJournal", "u_upload"}

C17_SagasSerialized ==
    \A p \in Procs, q \in Procs :
        (p # q /\ InSaga(p) /\ InSaga(q)) => op[p].user # op[q].user

\* C18: under any interleaving of concurrent CreateEntry, UpdateEntry and
\* DeleteEntry requests the entries table holds at most one row per
\* (journal, date), and no two rows share an id.
C18_OneRowPerDate ==
    \A e \in entries, f \in entries :
        ((e.journal = f.journal /\ e.date = f.date) \/ e.id = f.id) => e = f

C18_Witness ==
    \E p \in Procs, q \in Procs :
        /\ p # q
        /\ op[p].kind = "CreateEntry" /\ op[q].kind = "CreateEntry"
        /\ op[p].journal = op[q].journal /\ op[p].date = op[q].date
        /\ Has(p, "insert") /\ Has(q, "insert_err")
        /\ ~Has(p, "lookup_err") /\ ~Has(q, "lookup_err")

\* C19: the key stored in an entry row is the key generated from the owner of
\* its journal, the journal and the date; no step changes the key of a row;
\* and the key DeleteJournal generates for an entry it lists is the key
\* stored in that entry's row whenever the caller owns the journal.
C19_KeyIsDerived ==
    /\ [](\A e \in entries :
            /\ journals[e.journal] \in Users
            /\ e.key = GenerateKey(journals[e.journal], e.journal, e.date))
    /\ [][\A e \in entries, f \in entries' : e.id = f.id => e.key = f.key]_vars
    /\ [](\A p \in Procs :
            (op[p].kind = "DeleteJournal" /\ GetJournal(op[p].journal, op[p].user)) =>
                \A i \in 1..Len(loc[p].list) :
                    GenerateKey(op[p].user, op[p].journal, loc[p].list[i].date) = loc[p].list[i].key)

C19_Witness ==
    \E p \in Procs :
        /\ op[p].kind = "DeleteJournal" /\ pc[p] = "j_blobs"
        /\ GetJournal(op[p].journal, op[p].user)
        /\ Len(loc[p].list) = 1
        /\ Has(p, "del")
        /\ \E e \in entries :
            /\ e.journal = op[p].journal /\ e.date # loc[p].list[1].date
            /\ pre[p].blobs[e.key] # Absent /\ blobs[e.key] = Absent

\* C20: version rows are append-only.  A step never modifies a version row;
\* it removes one only together with the row's entry, in the row delete of
\* DeleteEntry or of DeleteJournal; every version row belongs to an entry
\* row; and no entry has two version rows with the same commit id.
C20_VersionsAppendOnly ==
    /\ [](\A v \in versions, w \in versions :
            (v.entry = w.entry /\ v.commit = w.commit) => v = w)
    /\ [](\A v \in versions : \E e \in entries : e.id = v.entry)
    /\ [][\A v \in versions :
            v \notin versions' =>
                /\ ~\E w \in versions' : w.entry = v.entry
                /\ ~\E e \in entries' : e.id = v.entry
                /\ \E p \in Procs :
                    \/ op[p].kind = "DeleteEntry" /\ pc[p] = "d_rowDelete" /\ loc[p].entry.id = v.entry
                    \/ op[p].kind = "DeleteJournal" /\ pc[p] = "j_blobs"
                         /\ \E e \in entries : e.id = v.entry /\ e.journal = op[p].journal]_vars

C20_Witness ==
    \E p \in Procs :
        /\ Finished(p, "DeleteEntry") /\ out[p].err = "none"
        /\ Cardinality(VersionsOf(pre[p].versions, loc[p].entry.id)) = 2
        /\ VersionsOf(versions, loc[p].entry.id) = {}

Quiet == \A p \in Procs : pc[p] = "idle"

C22_ReadsAgreeAtHead ==
    Quiet =>
        \A e \in entries :
            GetEntry(journals[e.journal], e.journal, e.date).err = "none" =>
                /\ GetVersion(journals[e.journal], e.journal, e.date, e.commit).err = "none"
                /\ GetVersion(journals[e.journal], e.journal, e.date, e.commit).content
                     = GetEntry(journals[e.journal], e.journal, e.date).content

\* C23: every started CreateEntry, UpdateEntry, DeleteEntry or DeleteJournal
\* ends, with exactly one outcome: success with its result, or one error and
\* no result.  No backend call is made twice: each step of a saga or of
\* DeleteEntry is attempted at most once, and DeleteJournal attempts one blob
\* delete per listed entry and one row delete.
StepClass(ev) ==
    IF ev \in {"put", "put_err"} THEN "A"
    ELSE IF ev \in {"commit", "head", "commit_err"} THEN "B"
    ELSE IF ev \in {"insert", "insert_err", "insert_lost", "update", "update_err"} THEN "C"
    ELSE IF ev \in {"version", "version_err"} THEN "D"
    ELSE IF ev \in {"del", "del_err"} THEN "blob delete"
    ELSE IF ev \in {"rowdel", "rowdel_err", "jdel", "jdel_err"} THEN "row delete"
    ELSE "lookup"

Count(seq, class) == Cardinality({i \in 1..Len(seq) : StepClass(seq[i]) = class})

InFlight(p) == pc[p] \notin {"idle", "done"}

C23_OneOutcome ==
    /\ \A p \in Procs : InFlight(p) ~> (pc[p] = "done")
    /\ [](\A p \in Procs :
            /\ \A class \in {"A", "B", "C", "D", "row delete", "lookup"} : Count(log[p], class) <= 1
            /\ op[p].kind # "DeleteJournal" => Count(log[p], "blob delete") <= 1
            /\ (op[p].kind = "DeleteJournal" /\ pc[p] \in {"j_blobs", "done"} /\ ~Has(p, "lookup_err")) =>
                 Count(log[p], "blob delete") + Len(loc[p].list)
                     = Cardinality({e \in pre[p].entries : e.journal = op[p].journal})
            /\ pc[p] = "done" =>
                 /\ out[p].err # "none" => (out[p].entry = NoEntry /\ out[p].content = Absent)
                 /\ (out[p].err = "none" /\ op[p].kind \in {"CreateEntry", "UpdateEntry"}) =>
                        out[p].entry \in entries)

C23_Witness ==
    \E p \in Procs :
        /\ Finished(p, "DeleteJournal")
        /\ Count(log[p], "blob delete") = 2
        /\ Has(p, "del_err") /\ Has(p, "jdel")

\* C24: DeleteEntry attempts the blob delete before the row delete and
\* ignores its outcome: after a failed blob delete the row delete is still
\* attempted, removes the entry row with its version rows, and the result of
\* the request is the result of the row delete alone.
C24_BlobDeleteBestEffort ==
    \A p \in Procs :
        op[p].kind = "DeleteEntry" =>
            /\ pc[p] = "d_rowDelete" => Writes(p) \in {<<"del">>, <<"del_err">>}
            /\ (Has(p, "del") \/ Has(p, "del_err")) => pc[p] \in {"d_rowDelete", "done"}
            /\ (pc[p] = "done" /\ (Has(p, "del") \/ Has(p, "del_err"))) =>
                /\ Len(Writes(p)) = 2
                /\ Writes(p)[1] \in {"del", "del_err"}
                /\ Writes(p)[2] \in {"rowdel", "rowdel_err"}
                /\ Has(p, "rowdel") =>
                    /\ out[p].err = "none"
                    /\ ~\E e \in entries : e.id = loc[p].entry.id
                    /\ VersionsOf(versions, loc[p].entry.id) = {}
                /\ Has(p, "rowdel_err") =>
                    /\ out[p].err = "delete failed"
                    /\ entries = pre[p].entries
                    /\ versions = pre[p].versions

C24_Witness ==
    \E p \in Procs :
        /\ Finished(p, "DeleteEntry")
        /\ Writes(p) = <<"del_err", "rowdel">>
        /\ out[p].err = "none"
        /\ blobs[loc[p].entry.key] # Absent
        /\ VersionsOf(pre[p].versions, loc[p].entry.id) # {}

\* C25: DeleteJournal by the owner attempts one blob delete for every entry of
\* the journal, going on after a failed one, and only then deletes the journal
\* row, which removes the entry and version rows of the journal together with
\* it; when listing the entries fails the request returns an error and no
\* blob and no row has been deleted.
C25_DeleteJournalOrder ==
    \A p \in Procs :
        (op[p].kind = "DeleteJournal" /\ ~Stranger(p)) =>
            LET mine == {e \in pre[p].entries : e.journal = op[p].journal} IN
            /\ Has(p, "lookup_err") =>
                /\ pc[p] = "done"
                /\ out[p].err = "failed to list entries"
                /\ Writes(p) = <<>>
                /\ Backends = pre[p]
            /\ (Has(p, "jdel") \/ Has(p, "jdel_err")) =>
                /\ Count(log[p], "blob delete") = Cardinality(mine)
                /\ Cardinality({e \in mine : blobs[e.key] = Absent})
                       >= Cardinality({i \in 1..Len(log[p]) : log[p][i] = "del"})
            /\ ~Has(p, "jdel") =>
                /\ journals = pre[p].journals
                /\ entries = pre[p].entries
                /\ versions = pre[p].versions
            /\ Has(p, "jdel") =>
                /\ out[p].err = "none"
                /\ journals[op[p].journal] = "deleted"
                /\ entries = pre[p].entries \ mine
                /\ versions = {v \in pre[p].versions : \A e \in mine : v.entry # e.id}

C25_Witness ==
    \E p \in Procs :
        /\ Finished(p, "DeleteJournal")
        /\ ~Stranger(p)
        /\ Cardinality({e \in pre[p].entries : e.journal = op[p].journal}) = 2
        /\ Writes(p) = <<"del_err", "del", "jdel">>
        /\ pre[p].versions # {}
        /\ \E k \in Keys : blobs[k] # Absent

\* C26: a CommitFile that returns a commit id has created no commit and
\* returns the id of the head when the content passed is the content recorded
\* at the path in the head, and has otherwise created exactly one commit,
\* which is the new head, holds the content at the path, and whose id is
\* returned.
C26_CommitFileDeduplicates ==
    \A p \in Procs :
        (op[p].kind \in {"CreateEntry", "UpdateEntry"} /\ (Has(p, "head") \/ Has(p, "commit"))) =>
            LET base == GetOrInitRepo(PreRepo(p)) IN
            IF HeadTree(base)[Path(p)] = Content(p)
            THEN /\ Repo(p).commits = base.commits
                 /\ loc[p].commit = HeadHash(op[p].user, base)
            ELSE /\ Len(Repo(p).commits) = Len(base.commits) + 1
                 /\ SubSeq(Repo(p).commits, 1, Len(base.commits)) = base.commits
                 /\ HeadTree(Repo(p))[Path(p)] = Content(p)
                 /\ loc[p].commit = HeadHash(op[p].user, Repo(p))

\* C27: a successful UpdateEntry whose normalized content is the content
\* recorded for the entry (in the blob and at the head of a clean repository)
\* leaves the blob content, the commit id of the entry row and its word
\* count as they were, also when the head is a commit of another entry.
C27_UnchangedUpdateIsNoOp ==
    \A p \in Procs :
        ( /\ Finished(p, "UpdateEntry")
          /\ out[p].err = "none"
          /\ pre[p].blobs[loc[p].entry.key] = Content(p)
          /\ PreRepo(p).init
          /\ IsClean(PreRepo(p))
          /\ HeadTree(PreRepo(p))[Path(p)] = Content(p)
          /\ PreRow(p).wc = countWords(Content(p)) ) =>
            /\ blobs[loc[p].entry.key] = pre[p].blobs[loc[p].entry.key]
            /\ GetJournalEntryByDate(op[p].journal, op[p].date).wc = PreRow(p).wc
            /\ GetJournalEntryByDate(op[p].journal, op[p].date).commit = PreRow(p).commit

\* C28: of two CreateEntry requests of the owner for the same journal and
\* date that both started before an entry existed, and whose backend calls
\* fail at most in one insert, exactly one returns success, and when both have
\* returned the entry row exists and the blob at its key holds the content of
\* one of the two requests.
CreateFailures(p) ==
    {i \in 1..Len(log[p]) : log[p][i] \in BackendErrors \ {"insert_err"}}
InsertErrors(p) == {i \in 1..Len(log[p]) : log[p][i] = "insert_err"}

C28_OneCreateWins ==
    \A p \in Procs, q \in Procs :
        ( /\ p # q
          /\ Finished(p, "CreateEntry") /\ Finished(q, "CreateEntry")
          /\ op[p].journal = op[q].journal /\ op[p].date = op[q].date
          /\ ~Stranger(p) /\ ~Stranger(q)
          /\ \A r \in {p, q} : \A e \in pre[r].entries :
                ~(e.journal = op[p].journal /\ e.date = op[p].date)
          /\ CreateFailures(p) = {} /\ CreateFailures(q) = {}
          /\ Cardinality(InsertErrors(p)) + Cardinality(InsertErrors(q)) <= 1 ) =>
            /\ (out[p].err = "none") # (out[q].err = "none")
            /\ \E e \in entries : e.journal = op[p].journal /\ e.date = op[p].date
            /\ blobs[EntryKey(p)] \in {Content(p), Content(q)}

\* C29: when two UpdateEntry requests for the same entry with different
\* contents have both returned success, the blob, the repository content of
\* the entry's path at the head and the repository content at the commit id
\* of the entry row are the content of the same one of the two requests, and
\* the word count of the row is that content's.
WrittenLast(w) ==
    LET row == GetJournalEntryByDate(op[w].journal, op[w].date) IN
    /\ blobs[loc[w].entry.key] = Content(w)
    /\ HeadTree(Repo(w))[Path(w)] = Content(w)
    /\ row # NoEntry
    /\ GetFileContentIn(op[w].user, Repo(w), Path(w), row.commit).content = Content(w)
    /\ row.wc = countWords(Content(w))

C29_LastWriterWins ==
    \A p \in Procs, q \in Procs :
        ( /\ p # q
          /\ Finished(p, "UpdateEntry") /\ Finished(q, "UpdateEntry")
          /\ out[p].err = "none" /\ out[q].err = "none"
          /\ loc[p].entry.id = loc[q].entry.id
          /\ Content(p) # Content(q) ) =>
            (WrittenLast(p) \/ WrittenLast(q))

\* C30: the step C of an UpdateEntry that finds no row of its entry, because
\* a DeleteEntry of the entry completed after the lookup, ends the request
\* with an error, and no blob is left at the entry's key.
C30_UpdateNeedsRow ==
    [][\A p \in Procs :
         ( /\ op[p].kind = "UpdateEntry"
           /\ pc[p] = "u_update" /\ pc'[p] # "u_update"
           /\ ~\E e \in entries : e.id = loc[p].entry.id ) =>
             /\ pc'[p] = "done"
             /\ out'[p].err # "none"
             /\ blobs'[loc[p].entry.key] = Absent]_vars

\* C31: an UpdateEntry that returns an error leaves the entry as it was: its
\* row (commit id, word count) and the content GetEntry reads from the blob
\* are those of before the call, and the word count is still the token count
\* of that content.
C31_FailedUpdateChangesNothing ==
    \A p \in Procs :
        (Finished(p, "UpdateEntry") /\ out[p].err # "none") =>
            \A e \in pre[p].entries :
                ( /\ e.journal = op[p].journal /\ e.date = op[p].date
                  /\ pre[p].blobs[e.key] # Absent
                  /\ e.wc = countWords(pre[p].blobs[e.key]) ) =>
                    /\ e \in entries
                    /\ blobs[e.key] = pre[p].blobs[e.key]
                    /\ e.wc = countWords(blobs[e.key])

\* C32: after a DeleteEntry or DeleteJournal that returned an error because
\* its row delete failed, every entry row the request was about still has
\* the blob it had before the call.
C32_FailedDeleteKeepsBlobs ==
    \A p \in Procs :
        ( /\ pc[p] = "done"
          /\ \/ op[p].kind = "DeleteEntry" /\ Has(p, "rowdel_err")
             \/ op[p].kind = "DeleteJournal" /\ Has(p, "jdel_err") /\ ~Stranger(p)
          /\ out[p].err # "none" ) =>
            \A e \in entries :
                ( /\ e.journal = op[p].journal
                  /\ op[p].kind = "DeleteEntry" => e.date = op[p].date
                  /\ pre[p].blobs[e.key] # Absent ) =>
                    blobs[e.key] = pre[p].blobs[e.key]

\* C33: no request of a user U, successful or failed, changes the journal
\* row, an entry row or a version row of a journal owned by another user V,
\* a blob under V's keys or V's repository.
OwnedRows(b, v) ==
    [journals |-> {j \in JournalIds : b.journals[j] = v},
     titles |-> [j \in {i \in JournalIds : b.journals[i] = v} |-> b.titles[j]],
     entries |-> {e \in b.entries : b.journals[e.journal] = v},
     versions |-> {ver \in b.versions :
                     \E e \in b.entries : e.id = ver.entry /\ b.journals[e.journal] = v},
     blobs |-> [k \in {x \in Keys : x[1] = v} |-> b.blobs[k]],
     repo |-> b.repos[v]]

C33_WritesIsolated ==
    \A p \in Procs :
        op[p].kind # "none" =>
            \A v \in Users \ {op[p].user} : OwnedRows(Backends, v) = OwnedRows(pre[p], v)

C33_Witness ==
    \E p \in Procs :
        /\ Finished(p, "DeleteJournal")
        /\ Stranger(p)
        /\ pre[p].journals[op[p].journal] \in Users
        /\ \E e \in entries : e.journal = op[p].journal /\ blobs[e.key] # Absent
        /\ Writes(p) = <<"del", "jdel">>
        /\ out[p].err = "none"

\* C34: in every reachable state, under any interleaving, every entry row
\* refers to an existing journal row and every version row to an existing
\* entry row: the deletes remove the dependent rows in the same step.
C34_ReferentialIntegrity ==
    /\ \A e \in entries : e.journal \in JournalIds /\ journals[e.journal] \in Users
    /\ \A v \in versions : \E e \in entries : e.id = v.entry

C34_Witness ==
    \E p \in Procs :
        /\ Finished(p, "DeleteJournal")
        /\ Has(p, "jdel")
        /\ journals[op[p].journal] = "deleted"
        /\ pre[p].entries # {} /\ pre[p].versions # {}
        /\ entries = {} /\ versions = {}

\* C35: the version rows match the repository history.  A write request
\* none of whose backend calls failed, started in a state where for every entry the
\* commit ids of its version rows were the commit ids ListVersions returns
\* for it, each of them a commit made by a write to that entry, and where no
\* entry row has ever been deleted, ends in such a state.
WrittenFor(r, e) ==
    {i \in ChangedIn(r, EntryPath(e.journal, e.date)) :
        r.commits[i].msg \in {EntryMessage(e.date), UpdateMessage(e.date)}}

IndexMatchesHistory(b) ==
    \A e \in b.entries :
        LET u == b.journals[e.journal]
            listed == ListCommitsIn(u, b.repos[u], EntryPath(e.journal, e.date))
        IN /\ {v.commit : v \in VersionsOf(b.versions, e.id)}
                = {listed[i].hash : i \in 1..Len(listed)}
           /\ \A v \in VersionsOf(b.versions, e.id) :
                /\ v.commit[1] = u
                /\ v.commit[2] \in WrittenFor(GetOrInitRepo(b.repos[u]), e)

C35_IndexMatchesHistory ==
    \A p \in Procs :
        ( /\ pc[p] = "done"
          /\ op[p].kind \in {"CreateEntry", "UpdateEntry"}
          /\ \A i \in 1..Len(log[p]) : log[p][i] \notin BackendErrors
          /\ nextEntryId - 1 = Cardinality(entries)
          /\ IndexMatchesHistory(pre[p]) ) =>
            IndexMatchesHistory(Backends)

\* C36: a ListVersions or GetVersion of the owner for a journal and date
\* that have no entry row (never created, or deleted) ends with an error and
\* returns neither a history nor a content.
C36_NoHistoryWithoutEntry ==
    \A p \in Procs :
        ( /\ pc[p] = "done"
          /\ op[p].kind \in {"ListVersions", "GetVersion"}
          /\ ~Stranger(p)
          /\ ~Has(p, "lookup_err") /\ ~Has(p, "repo_err")
          /\ GetJournalEntryByDate(op[p].journal, op[p].date) = NoEntry ) =>
            /\ out[p].err # "none"
            /\ out[p].content = Absent
            /\ loc[p].list = <<>>

\* C37: normalization is idempotent.  For every text over NUL, CR, LF, SP and
\* an ordinary character, sanitizeMarkdown applied to its own result returns
\* that result, which holds no NUL and no CR.
C37_NormalizeIdempotent ==
    \A p \in Procs :
        (op[p].kind = "sanitizeMarkdown" /\ pc[p] \in {"s_count", "done"}) =>
            /\ sanitizeMarkdown(out[p].content) = out[p].content
            /\ \A i \in 1..Len(out[p].content) : out[p].content[i] \notin {"NUL", "CR"}

C37_Witness ==
    \E p \in Procs :
        /\ op[p].kind = "sanitizeMarkdown" /\ pc[p] = "done"
        /\ op[p].content = <<"CR", "NUL", "LF", "CR">>
        /\ out[p].content = <<"LF", "LF">>

\* C38: after a successful CreateEntry or UpdateEntry the word count of the
\* entry row, and of the entry returned, is the number of maximal runs of
\* non-whitespace characters in the content GetEntry returns; it is 0 for an
\* empty or blank content.
RECURSIVE RunsFrom(_, _)
RunsFrom(s, inRun) ==
    IF s = <<>> THEN 0
    ELSE IF Head(s) \in {"SP", "LF", "CR"} THEN RunsFrom(Tail(s), FALSE)
    ELSE (IF inRun THEN 0 ELSE 1) + RunsFrom(Tail(s), TRUE)

Runs(s) == RunsFrom(s, FALSE)

C38_WordCountIsRuns ==
    \A p \in Procs :
        (pc[p] = "done" /\ op[p].kind \in {"CreateEntry", "UpdateEntry"} /\ out[p].err = "none") =>
            LET got == GetEntry(op[p].user, op[p].journal, op[p].date) IN
            /\ got.err = "none"
            /\ got.content = Content(p)
            /\ got.entry.wc = Runs(got.content)
            /\ out[p].entry.wc = Runs(got.content)

C38_Witness ==
    \E p \in Procs :
        /\ Finished(p, "UpdateEntry") /\ out[p].err = "none"
        /\ PreRow(p).wc = 2
        /\ GetEntry(op[p].user, op[p].journal, op[p].date).content \in {<<>>, <<"SP">>}
        /\ GetEntry(op[p].user, op[p].journal, op[p].date).entry.wc = 0

\* C39: the GetJournal and DeleteJournal handlers answer 404 when the journal
\* does not exist or belongs to another user and no backend call fails.
C39_MissingJournalIs404 ==
    \A p \in Procs :
        ( /\ pc[p] = "done"
          /\ op[p].kind \in {"GetJournal", "DeleteJournal"}
          /\ Stranger(p)
          /\ \A i \in 1..Len(log[p]) : log[p][i] \notin BackendErrors ) =>
            HandlerStatus(op[p].kind, out[p].err) = 404

\* Sequences as sets, and sequences without disorder or repetition.
Elems(s) == {s[n] : n \in 1..Len(s)}
Increasing(s) == \A m, n \in 1..Len(s) : m < n => s[m] < s[n]
Distinct(s) == \A m, n \in 1..Len(s) : m # n => s[m] # s[n]
C40_State ==
    /\ Increasing(mig.applied)
    /\ Distinct(schema)
    /\ Distinct(schema_migrations)
    /\ \A f \in Migrations :
        /\ f \in Elems(schema_migrations) <=> Elems(Statements(f)) \subseteq Elems(schema)
        /\ Elems(Statements(f)) \cap Elems(schema) # {} => f \in Elems(schema_migrations)
C40_Step ==
    /\ mig.err # "none" => schema' = schema /\ schema_migrations' = schema_migrations
    /\ (mig.pc = "m_exec" /\ mig'.err # "none") =>
            /\ tx' = NoTx
            /\ schema' = schema
            /\ schema_migrations' = schema_migrations
            /\ mig'.pc = "done"
    /\ (schema' # schema \/ schema_migrations' # schema_migrations) =>
            \E f \in dir \ Elems(schema_migrations) :
                /\ schema_migrations' = Append(schema_migrations, f)
                /\ schema' = schema \o Statements(f)
\* C40: RunMigrations applies the files in ascending name order and each at
\* most once; a migration is recorded exactly when all its statements are
\* committed, in the same transaction; a failing statement rolls back, leaves
\* no record and stops the run; a later run applies only unrecorded files.
C40_Migrations == []C40_State /\ [][C40_Step]_vars
\* The first run applied 1 and failed in the second statement of 3, 2 arrived,
\* and the second run skipped 1 and applied 2 and 3.
C40_Witness ==
    /\ mig.pc = "done" /\ mig.err = "none" /\ mig.runs = 2
    /\ mig.applied = <<2, 3>>
    /\ schema_migrations = <<1, 2, 3>>
    /\ schema = Statements(1) \o Statements(2) \o Statements(3)
    /\ stdout = << <<"Running", 1>>, <<"completed", 1>>, <<"Running", 3>>,
                   <<"skipping", 1>>, <<"Running", 2>>, <<"completed", 2>>,
                   <<"Running", 3>>, <<"completed", 3>> >>

====
